---- MODULE Spec2Model ----
(***************************************************************************)
(* A model of the rusted-asteroids server (src/server/src/main.rs) and of  *)
(* the shared types (src/shared/src/lib.rs).                               *)
(*                                                                         *)
(* Units.  f32 coordinates are fixed-point numbers with Scale steps per    *)
(* world unit; velocities are in those steps per second; angles are in     *)
(* milliradians; Instants and Durations are in milliseconds.  Option<T> is *)
(* a set with at most one element: None is {} and Some(t) is {t}.          *)
(***************************************************************************)
EXTENDS Integers, Sequences, FiniteSets, TLC

VARIABLES
    clock,           \* the time of the most recent clock reading (ms)
    lag,             \* ms between a tick's first clock reading and its later ones
    next_id,         \* ServerState.next_id
    players,         \* ServerState.players : id -> PlayerState
    runtime,         \* ServerState.runtime : id -> PlayerRuntime
    bullets,         \* ServerState.bullets : Seq(BulletRuntime)
    asteroids,       \* ServerState.asteroids : Seq(AsteroidState)
    clients,         \* ServerState.clients : the ids that have a ClientTx
    readers,         \* the ids whose handle_client is in its read loop
    closed,          \* the ids whose write task has ended: the receiver is dropped
    lock,            \* the holder of the state mutex: None or Some(process)
    pc,              \* process -> its place in the operation it is in the middle of
    heard,           \* history: client -> the last Input received from it
    power_ups,       \* ServerState.power_ups : Seq(PowerUpRuntime)
    current_wave,    \* ServerState.current_wave
    wave_countdown,  \* ServerState.wave_countdown : Option<Instant>
    log,             \* history: what the most recent step did
    budget           \* history: how many steps the behaviour still takes

vars == <<clock, lag, next_id, players, runtime, bullets, asteroids, clients,
          readers, closed, lock, pc, heard, power_ups, current_wave, wave_countdown,
          log, budget>>

----------------------------------------------------------------------------
\* Bounds of the model.

StartSteps == 4      \* steps (ticks and handler steps) per behaviour that begins at
                     \* the server's start
DuelSteps == 2       \* steps per behaviour that begins in the middle of a game
SalvoSteps == 2
DownedSteps == 3
WaveSteps == 3
MaxClients == 3      \* connections alive at the same time
MaxLag == 1          \* largest lag between two clock readings of one tick (ms)
StallMs == 1500      \* the long gap between two ticks (a stalled ticker)

----------------------------------------------------------------------------
\* Program constants.

Scale == 10 * 10                    \* fixed-point steps per world unit
WORLD_WIDTH == 240 * Scale
WORLD_HEIGHT == 80 * Scale

TICK_HZ == 20
ROT_SPEED == 5000                   \* 5.0 rad/s, in mrad/s
THRUST == 12
DRAG == 985                         \* 0.985, per mille
MAX_SPEED == 25
BULLET_SPEED == 30
FIRE_COOLDOWN == 200                \* 0.2 s
BULLET_TTL == 51                    \* 2.5f32 - k * 0.05f32 is > 0.0 for k <= 50
ASTEROID_COUNT == 50

SPAWN_INVINCIBILITY_SECS == 2500
RESPAWN_DELAY_SECS == 1500
SAFE_SPAWN_RADIUS == 8
POWERUP_DURATION_SECS == 8000
POWERUP_TTL_SECS == 15000
POWERUP_RADIUS == 150               \* 1.5 world units
COMBO_TIMEOUT_SECS == 3000
MAX_COMBO == 10
KILL_STREAK_BONUS_INTERVAL == 3
KILL_STREAK_BONUS_POINTS == 100
PVP_KILL_POINTS == 200
RAPID_FIRE_COOLDOWN_MULT == 4       \* 0.4, in tenths
RAPID_FIRE_COOLDOWN == (FIRE_COOLDOWN * RAPID_FIRE_COOLDOWN_MULT) \div 10
SPEED_BOOST_MULT == 15              \* 1.5, in tenths
WAVE_COUNTDOWN_SECS == 3000
ASTEROIDS_PER_WAVE == 5
WAVE_CAP == 100

PLAYER_RADIUS == 150                \* 1.5 world units
BULLET_RADIUS == 50                 \* 0.5 world units

TickMs == 1000 \div TICK_HZ         \* the ticker's period

PowerUpKind == {"Shield", "RapidFire", "TripleShot", "SpeedBoost"}

----------------------------------------------------------------------------
\* Option<T>.

None == {}
Some(t) == {t}
Get(o) == CHOOSE t \in o : TRUE

\* Division of f32 values kept as integers: towards zero.
Div(a, b) == IF a >= 0 THEN a \div b ELSE -((-a) \div b)

Min(a, b) == IF a <= b THEN a ELSE b

----------------------------------------------------------------------------
\* Vec2 and the toroidal geometry.

Vec2(px, py) == [x |-> px, y |-> py]

VAdd(a, b) == Vec2(a.x + b.x, a.y + b.y)

\* v.scale(dt), dt = 1 / TICK_HZ
ScaleDt(v) == Vec2(Div(v.x, TICK_HZ), Div(v.y, TICK_HZ))

wrap_position(p) ==
    LET x1 == IF p.x < 0 THEN p.x + WORLD_WIDTH ELSE p.x
        x2 == IF x1 >= WORLD_WIDTH THEN x1 - WORLD_WIDTH ELSE x1
        y1 == IF p.y < 0 THEN p.y + WORLD_HEIGHT ELSE p.y
        y2 == IF y1 >= WORLD_HEIGHT THEN y1 - WORLD_HEIGHT ELSE y1
    IN  Vec2(x2, y2)

asteroid_radius(size) ==
    CASE size = 1 -> 2 * Scale
      [] size = 2 -> 3 * Scale
      [] OTHER    -> 4 * Scale

shortest_delta(a, b, wrap) ==
    LET d == a - b
    IN  IF 2 * d > wrap THEN d - wrap
        ELSE IF 2 * d < -wrap THEN d + wrap
        ELSE d

distance_squared_wrapped(a, b) ==
    LET dx == shortest_delta(a.x, b.x, WORLD_WIDTH)
        dy == shortest_delta(a.y, b.y, WORLD_HEIGHT)
    IN  dx * dx + dy * dy

\* dist_sq < radius_sum * radius_sum
Overlap(a, b, radius_sum) == distance_squared_wrapped(a, b) < radius_sum * radius_sum

\* cos and sin at the eight compass headings, per mille (sector 0 is angle 0)
COS8 == <<1000, 707, 0, -707, -1000, -707, 0, 707>>
SIN8 == <<0, 707, 1000, 707, 0, -707, -1000, -707>>

TAU == 6283
FRAC_PI_4 == 785
FRAC_PI_8 == 393

\* ((a + FRAC_PI_8) / FRAC_PI_4).floor() for a = angle % TAU made non-negative,
\* as an index into COS8 and SIN8
Sector(angle) ==
    LET r == angle % TAU
    IN  (((r + FRAC_PI_8) \div FRAC_PI_4) % 8) + 1

----------------------------------------------------------------------------
\* The records of src/shared/src/lib.rs and the runtime records of the server.

PlayerInputDefault == [thrust |-> FALSE, rotate |-> 0, fire |-> FALSE]

PlayerEffectsDefault ==
    [shield_remaining |-> None, rapid_fire_remaining |-> None,
     triple_shot_remaining |-> None, speed_boost_remaining |-> None,
     invincible_remaining |-> None]

\* PlayerRuntimeNew with the fire flag set
PlayerRuntimeNew_firing(t) ==
    [input |-> [thrust |-> FALSE, rotate |-> 0, fire |-> TRUE], last_fire |-> t,
     invincible_until |-> None, respawn_at |-> None, last_kill_time |-> None,
     combo |-> 0, kill_streak |-> 0, shield_until |-> None, rapid_fire_until |-> None,
     triple_shot_until |-> None, speed_boost_until |-> None]

\* PlayerRuntime::new() at time t
PlayerRuntimeNew(t) ==
    [input |-> PlayerInputDefault, last_fire |-> t, invincible_until |-> None,
     respawn_at |-> None, last_kill_time |-> None, combo |-> 0, kill_streak |-> 0,
     shield_until |-> None, rapid_fire_until |-> None, triple_shot_until |-> None,
     speed_boost_until |-> None]

\* o.map_or(false, |u| Instant::now() < u), the clock reading being t
Active(o, t) == \E u \in o : t < u

\* is_invincible without its second disjunct: spawn invincibility only
is_invincible_spawn_only(rt, t) == Active(rt.invincible_until, t)

is_invincible(rt, t) == Active(rt.invincible_until, t) \/ Active(rt.shield_until, t)

has_rapid_fire(rt, t) == Active(rt.rapid_fire_until, t)

has_triple_shot(rt, t) == Active(rt.triple_shot_until, t)

has_speed_boost(rt, t) == Active(rt.speed_boost_until, t)

\* o.and_then(|u| if u > now { Some(u - now) } else { None })
Remaining(o, t) == IF \E u \in o : u > t THEN Some(Get(o) - t) ELSE None

get_effects(rt, t) ==
    [shield_remaining |-> Remaining(rt.shield_until, t),
     rapid_fire_remaining |-> Remaining(rt.rapid_fire_until, t),
     triple_shot_remaining |-> Remaining(rt.triple_shot_until, t),
     speed_boost_remaining |-> Remaining(rt.speed_boost_until, t),
     invincible_remaining |-> Remaining(rt.invincible_until, t)]

----------------------------------------------------------------------------
\* The random draws of the server, each from a small set of its outcomes.

\* rng.gen_range(0.0..WORLD_WIDTH), rng.gen_range(0.0..WORLD_HEIGHT): the first
\* lies inside asteroid 1 of every layout, the second is clear of the grid
SpawnCandidates == {Vec2(9 * Scale, 4 * Scale), Vec2(24 * Scale, 8 * Scale)}

\* rng.gen_range(0.0..TAU), the heading of a new player
SpawnAngles == {0}

\* the layouts spawn_asteroids draws from
Layouts == {1, 2}

\* the i-th asteroid spawn_asteroids draws in layout l: a position in the world,
\* a velocity in [-2.5, 2.5) x [-1.5, 1.5) and a size in 1..3
LayoutAsteroid(l, i) ==
    [pos  |-> Vec2((12 + 24 * ((i - 1) % 10)) * Scale, (4 + 8 * ((i - 1) \div 10)) * Scale),
     vel  |-> Vec2((((i + l) % 3) - 1) * Scale, ((((i \div 3) + l) % 3) - 1) * 60),
     size |-> ((i + l) % 3) + 1]

\* one bullet-asteroid hit draws: the power-up drop (rng.gen::<f32>() < 0.3 and
\* the kind, one of the four kinds standing for all), and per child the spread
\* (mrad) and the speed factor (per mille)
DropDraws == {"None", "Shield"}
SpreadDraws == {<<-450, 450>>, <<450, -450>>}
JitterDraws == {<<800, 1300>>}
HitDraws ==
    {[drop |-> d, spread |-> sp, jitter |-> j] :
        d \in DropDraws, sp \in SpreadDraws, j \in JitterDraws}

\* the iteration orders of a HashMap with the keys ids
Orders(ids) ==
    {o \in [1..Cardinality(ids) -> ids] : \A i, j \in 1..Cardinality(ids) : i # j => o[i] # o[j]}

----------------------------------------------------------------------------
\* find_safe_spawn_position, spawn_player, spawn_asteroids.

IsSafe(pos, asts) ==
    \A i \in DOMAIN asts :
        ~Overlap(pos, asts[i].pos, SAFE_SPAWN_RADIUS * Scale + asteroid_radius(asts[i].size))

\* the positions find_safe_spawn_position can return: a safe candidate among
\* the first 50 draws, or, all of them unsafe, the fallback draw
find_safe_spawn_position(asts) ==
    {p \in SpawnCandidates : IsSafe(p, asts)} \cup SpawnCandidates

spawn_player(id, name, pos, angle) ==
    [id |-> id, name |-> name, pos |-> pos, vel |-> Vec2(0, 0), angle |-> angle,
     alive |-> TRUE, score |-> 0, combo |-> 0, kill_streak |-> 0,
     respawn_timer |-> None, effects |-> PlayerEffectsDefault]

\* count asteroids with the ids first_id, first_id + 1, ... (next_entity_id)
spawn_asteroids(count, first_id, l) ==
    [i \in 1..count |->
        [id |-> first_id + i - 1, pos |-> LayoutAsteroid(l, i).pos,
         vel |-> LayoutAsteroid(l, i).vel, size |-> LayoutAsteroid(l, i).size]]

----------------------------------------------------------------------------
\* f32 arithmetic that the integers above do not cover.

RECURSIVE ILog2(_)
\* floor(log2(n)), n >= 1
ILog2(n) == IF n < 2 THEN 0 ELSE 1 + ILog2(n \div 2)

RECURSIVE SqrtIter(_, _, _)
SqrtIter(n, lo, hi) ==
    IF lo >= hi THEN lo
    ELSE LET mid == (lo + hi + 1) \div 2
         IN  IF mid * mid <= n THEN SqrtIter(n, mid, hi) ELSE SqrtIter(n, lo, mid - 1)

\* sqrt() of a speed squared, rounded down
ISqrt(n) == SqrtIter(n, 0, 46340)

\* 1.0f32 - DEATH_PENALTY_PERCENT (0.15f32) is the f32 F32_KEEP / 2^24
F32_KEEP == 14260634

\* ((score as f32) * (1.0 - DEATH_PENALTY_PERCENT)) as u32 for score < 2^24:
\* the exact product score * F32_KEEP / 2^24 = whole + frac / 2^24, rounded to
\* the 24 significant bits of an f32 (ties to even), then truncated.
DeathPenalty(score) ==
    LET a1 == score \div 4096
        a0 == score % 4096
        m1 == F32_KEEP \div 4096
        m0 == F32_KEEP % 4096
        mid == a1 * m0 + a0 * m1
        rest == (mid % 4096) * 4096 + a0 * m0
        whole == a1 * m1 + (mid \div 4096) + (rest \div 16777216)
        frac == rest % 16777216
        e == ILog2(whole)
        drop == 2 ^ (e + 1)             \* frac / drop keeps 23 - e fraction bits
        kept == frac \div drop
        rem == frac % drop
        odd == IF e = 23 THEN whole % 2 = 1 ELSE kept % 2 = 1
        up == IF 2 * rem > drop \/ (2 * rem = drop /\ odd) THEN 1 ELSE 0
    IN  IF whole = 0 THEN 0
        ELSE IF (kept + up) * drop = 16777216 THEN whole + 1 ELSE whole

\* y.atan2(x) to the nearest compass heading, in mrad (tan(pi/8) = 0.414)
Atan2(y, x) ==
    LET ax == IF x < 0 THEN -x ELSE x
        ay == IF y < 0 THEN -y ELSE y
    IN  IF 1000 * ay <= 414 * ax THEN (IF x >= 0 THEN 0 ELSE 4 * FRAC_PI_4)
        ELSE IF 1000 * ax < 414 * ay THEN (IF y > 0 THEN 2 * FRAC_PI_4 ELSE -2 * FRAC_PI_4)
        ELSE IF x > 0 THEN (IF y > 0 THEN FRAC_PI_4 ELSE -FRAC_PI_4)
        ELSE (IF y > 0 THEN 3 * FRAC_PI_4 ELSE -3 * FRAC_PI_4)

\* Vec2::new(angle.cos(), angle.sin()).scale(len), the angle taken to the
\* nearest compass heading
Dir(angle, len) ==
    Vec2(Div(COS8[Sector(angle)] * len, 1000), Div(SIN8[Sector(angle)] * len, 1000))

\* cos(0.2) and sin(0.2), per mille
COS_02 == 980
SIN_02 == 199

\* Vec2::new((angle + k * 0.2).cos(), (angle + k * 0.2).sin()).scale(len) for a
\* snapped angle and k in {-1, 0, 1}
DirSpread(angle, k, len) ==
    LET c == COS8[Sector(angle)]
        s == SIN8[Sector(angle)]
        cc == IF k = 0 THEN c ELSE Div(c * COS_02 - k * s * SIN_02, 1000)
        ss == IF k = 0 THEN s ELSE Div(s * COS_02 + k * c * SIN_02, 1000)
    IN  Vec2(Div(cc * len, 1000), Div(ss * len, 1000))

----------------------------------------------------------------------------
\* tick(): the phases, each a function of the frame f (the ServerState, the
\* locals of tick and the record ev of what the tick did).

EmptyLog ==
    [kind |-> "new", who |-> 0, now |-> 0, tnow |-> 0, respawned |-> {},
     respawns |-> <<>>, at_test |-> <<>>, under_fire |-> {}, kills |-> <<>>,
     deaths |-> <<>>, fired |-> {}, picked |-> <<>>, wave_spawned |-> 0,
     pvp |-> [bullets |-> <<>>, players |-> <<>>, runtime |-> <<>>],
     pickup |-> [power_ups |-> <<>>, players |-> <<>>, before |-> <<>>, after |-> <<>>],
     shots |-> <<>>, driven |-> <<>>, mutated |-> <<>>,
     sent |-> <<>>]

\* RespawnDue with "now > respawn_at" for the code's "now >= respawn_at"
RespawnDue_strict(rts, now) == {id \in DOMAIN rts : \E r \in rts[id].respawn_at : now > r}

\* the ids whose respawn timer has expired at the clock reading now
RespawnDue(rts, now) == {id \in DOMAIN rts : \E r \in rts[id].respawn_at : now >= r}

\* RespawnedPlayer without "player.vel = Vec2::new(0.0, 0.0)"
RespawnedPlayer_keeps_vel(p, pos) ==
    [p EXCEPT !.pos = pos, !.alive = TRUE, !.respawn_timer = None]

\* the four assignments to the player record in "Respawn players whose timer
\* expired", safe_pos being pos
RespawnedPlayer(p, pos) ==
    [p EXCEPT !.pos = pos, !.vel = Vec2(0, 0), !.alive = TRUE, !.respawn_timer = None]

\* "Process respawn timers first" and "Respawn players whose timer expired"
RespawnPhase(f, now, spawn) ==
    LET due == RespawnDue(f.runtime, now)
        Player(id) ==
            IF id \in due THEN RespawnedPlayer(f.players[id], spawn[id])
            ELSE f.players[id]
        Runtime(id) ==
            IF id \in due
            THEN [f.runtime[id] EXCEPT
                    !.respawn_at = None,
                    !.invincible_until =
                        IF id \in DOMAIN f.players
                        THEN Some(now + SPAWN_INVINCIBILITY_SECS) ELSE @]
            ELSE f.runtime[id]
    IN  [f EXCEPT
            !.players = [id \in DOMAIN f.players |-> Player(id)],
            !.runtime = [id \in DOMAIN f.runtime |-> Runtime(id)],
            !.ev.respawned = due \cap DOMAIN f.players,
            !.ev.respawns = [id \in due \cap DOMAIN f.players |->
                [before |-> [p |-> f.players[id], rt |-> f.runtime[id]],
                 after |-> [p |-> Player(id), rt |-> Runtime(id)]]]]

\* "Update player state from runtime (effects, combo, streak)"
SyncPhase(f, now, tnow) ==
    [f EXCEPT !.players = [id \in DOMAIN f.players |->
        IF id \in DOMAIN f.runtime
        THEN LET rt == f.runtime[id]
             IN  [f.players[id] EXCEPT
                    !.effects = get_effects(rt, tnow),
                    !.combo = rt.combo,
                    !.kill_streak = rt.kill_streak,
                    !.respawn_timer =
                        IF \E r \in rt.respawn_at : r > now
                        THEN Some(Get(rt.respawn_at) - now) ELSE @]
        ELSE f.players[id]]]

\* "Update angle and velocity" of one live player
MovePlayer(p, input, has_speed) ==
    LET angle == p.angle + input.rotate * (ROT_SPEED \div TICK_HZ)
        thrust_mult == IF has_speed THEN SPEED_BOOST_MULT ELSE 10
        acc == (THRUST * Scale * thrust_mult) \div (10 * TICK_HZ)
        v1 == IF input.thrust THEN VAdd(p.vel, Dir(angle, acc)) ELSE p.vel
        v2 == Vec2(Div(v1.x * DRAG, 1000), Div(v1.y * DRAG, 1000))
        max_speed == (MAX_SPEED * Scale * thrust_mult) \div 10
        speed_sq == v2.x * v2.x + v2.y * v2.y
        v3 == IF speed_sq > max_speed * max_speed
              THEN Vec2(Div(v2.x * max_speed, ISqrt(speed_sq)),
                        Div(v2.y * max_speed, ISqrt(speed_sq)))
              ELSE v2
    IN  [p EXCEPT !.angle = angle, !.vel = v3,
                  !.pos = wrap_position(VAdd(p.pos, ScaleDt(v3)))]

\* the velocities of the bullets of one shot: "Snap angle to 8 directions",
\* "Create bullets (1 or 3 depending on triple shot)"
BulletVels(angle, has_triple) ==
    IF has_triple
    THEN <<DirSpread(angle, -1, BULLET_SPEED * Scale),
           DirSpread(angle, 0, BULLET_SPEED * Scale),
           DirSpread(angle, 1, BULLET_SPEED * Scale)>>
    ELSE <<DirSpread(angle, 0, BULLET_SPEED * Scale)>>

\* 0.2f32 is F32_FIRE_COOLDOWN / 2^26, and the f32 product 0.2f32 * 0.4f32 is
\* F32_RAPID_COOLDOWN / 2^27 (more than 0.08)
F32_FIRE_COOLDOWN == 13421773
F32_RAPID_COOLDOWN == 10737419

\* `n as f32` for 0 <= n < 2^30: n rounded to 24 significant bits, ties to even
u32_as_f32(n) ==
    IF n < 16777216 THEN n
    ELSE LET drop == 2 ^ (ILog2(n) - 23)
             kept == n \div drop
             rem == n % drop
             up == 2 * rem > drop \/ (2 * rem = drop /\ kept % 2 = 1)
         IN  (kept + IF up THEN 1 ELSE 0) * drop

\* the product a * b of two numbers below 2^30, as four digits to the base 2^15,
\* the most significant first
Wide(a, b) ==
    LET p0 == (a % 32768) * (b % 32768)
        p1 == (a \div 32768) * (b % 32768) + (a % 32768) * (b \div 32768) + p0 \div 32768
        p2 == (a \div 32768) * (b \div 32768) + p1 \div 32768
    IN  <<p2 \div 32768, p2 % 32768, p1 % 32768, p0 % 32768>>

WideLess(x, y) ==
    \E i \in 1..4 : x[i] < y[i] /\ \A j \in 1..(i - 1) : x[j] = y[j]

\* Duration::as_secs_f32() >= mant / 2^exp for a duration of ns < 10^9
\* nanoseconds: (ns as f32) / 1e9f32, rounded to the nearest f32 (ties to
\* even), is at least the f32 mant / 2^exp when the exact quotient is above the
\* middle (2 * mant - 1) / 2^(exp + 1) between that f32 and the one below it,
\* or on it with mant even.  10^9 is 2^9 * 1953125.
as_secs_f32_ge(ns, mant, exp) ==
    LET lhs == Wide(u32_as_f32(ns), 2 ^ (exp - 8))
        rhs == Wide(2 * mant - 1, 1953125)
    IN  IF mant % 2 = 1 THEN WideLess(rhs, lhs) ELSE ~WideLess(lhs, rhs)

\* CooledDown comparing the nanoseconds themselves
CooledDown_exact(ns, has_rapid) ==
    ns >= (IF has_rapid THEN RAPID_FIRE_COOLDOWN ELSE FIRE_COOLDOWN) * 1000000

\* "elapsed >= cooldown" for last_fire.elapsed() of ns < 10^9 nanoseconds
CooledDown(ns, has_rapid) ==
    IF has_rapid THEN as_secs_f32_ge(ns, F32_RAPID_COOLDOWN, 27)
    ELSE as_secs_f32_ge(ns, F32_FIRE_COOLDOWN, 26)

\* "elapsed >= cooldown" for an elapsed time of whole milliseconds
CooledDownMs(ms, has_rapid) == ms >= 1000 \/ CooledDown(ms * 1000000, has_rapid)

\* PlayerStep without "if !player_alive { continue; }"
PlayerStep_drives_dead(f, id, tnow) ==
    IF id \notin DOMAIN f.runtime THEN f
    ELSE
        LET rt == f.runtime[id]
            p1 == MovePlayer(f.players[id], rt.input, has_speed_boost(rt, tnow))
            fires == rt.input.fire
                        /\ CooledDownMs(tnow - rt.last_fire, has_rapid_fire(rt, tnow))
            shots == IF fires THEN BulletVels(p1.angle, has_triple_shot(rt, tnow)) ELSE <<>>
            pushed == [k \in 1..Len(shots) |->
                        [state |-> [id |-> f.next_id + k - 1, owner_id |-> id,
                                    pos |-> p1.pos, vel |-> shots[k]],
                         ttl |-> BULLET_TTL]]
        IN  [f EXCEPT
                !.players[id] = p1,
                !.runtime[id].last_fire = IF fires THEN tnow ELSE @,
                !.bullets = @ \o pushed,
                !.next_id = @ + Len(shots),
                !.ev.fired = IF fires THEN @ \cup {id} ELSE @,
                !.ev.shots = @ \o pushed,
                !.ev.driven = (id :> rt.input) @@ @]

\* one iteration of "Player movement and shooting"
PlayerStep(f, id, tnow) ==
    IF id \notin DOMAIN f.runtime \/ ~f.players[id].alive THEN f
    ELSE
        LET rt == f.runtime[id]
            p1 == MovePlayer(f.players[id], rt.input, has_speed_boost(rt, tnow))
            fires == rt.input.fire
                        /\ CooledDownMs(tnow - rt.last_fire, has_rapid_fire(rt, tnow))
            shots == IF fires THEN BulletVels(p1.angle, has_triple_shot(rt, tnow)) ELSE <<>>
            pushed == [k \in 1..Len(shots) |->
                        [state |-> [id |-> f.next_id + k - 1, owner_id |-> id,
                                    pos |-> p1.pos, vel |-> shots[k]],
                         ttl |-> BULLET_TTL]]
        IN  [f EXCEPT
                !.players[id] = p1,
                !.runtime[id].last_fire = IF fires THEN tnow ELSE @,
                !.bullets = @ \o pushed,
                !.next_id = @ + Len(shots),
                !.ev.fired = IF fires THEN @ \cup {id} ELSE @,
                !.ev.shots = @ \o pushed,
                !.ev.driven = (id :> rt.input) @@ @]

RECURSIVE PlayerLoop(_, _, _, _)
\* "Player movement and shooting", the players taken in the order `order`
PlayerLoop(f, order, i, tnow) ==
    IF i > Len(order) THEN f
    ELSE PlayerLoop(PlayerStep(f, order[i], tnow), order, i + 1, tnow)

\* BulletInside with "ttl >= 0.0" for the code's "ttl > 0.0"
BulletInside_lenient(b) ==
    /\ b.ttl >= 0
    /\ b.state.pos.x >= 0
    /\ b.state.pos.x <= WORLD_WIDTH
    /\ b.state.pos.y >= 0
    /\ b.state.pos.y <= WORLD_HEIGHT

\* the retain of "Update bullets"
BulletInside(b) ==
    /\ b.ttl > 0
    /\ b.state.pos.x >= 0
    /\ b.state.pos.x <= WORLD_WIDTH
    /\ b.state.pos.y >= 0
    /\ b.state.pos.y <= WORLD_HEIGHT

\* UpdatePhase without the wrap_position of "Update asteroids"
UpdatePhase_unwrapped(f, now) ==
    [f EXCEPT
        !.bullets = SelectSeq(
            [i \in 1..Len(f.bullets) |->
                [f.bullets[i] EXCEPT !.ttl = @ - 1,
                    !.state.pos = VAdd(@, ScaleDt(f.bullets[i].state.vel))]],
            BulletInside),
        !.asteroids = [i \in 1..Len(f.asteroids) |->
            [f.asteroids[i] EXCEPT
                !.pos = VAdd(@, ScaleDt(f.asteroids[i].vel))]],
        !.power_ups = SelectSeq(f.power_ups, LAMBDA pu : now < pu.expires_at)]

\* "Update bullets", "Update asteroids", "Update power-ups (remove expired)"
UpdatePhase(f, now) ==
    [f EXCEPT
        !.bullets = SelectSeq(
            [i \in 1..Len(f.bullets) |->
                [f.bullets[i] EXCEPT !.ttl = @ - 1,
                    !.state.pos = VAdd(@, ScaleDt(f.bullets[i].state.vel))]],
            BulletInside),
        !.asteroids = [i \in 1..Len(f.asteroids) |->
            [f.asteroids[i] EXCEPT
                !.pos = wrap_position(VAdd(@, ScaleDt(f.asteroids[i].vel)))]],
        !.power_ups = SelectSeq(f.power_ups, LAMBDA pu : now < pu.expires_at)]

----------------------------------------------------------------------------
\* "Collision: bullet-asteroid"

MinOf(S) == CHOOSE m \in S : \A k \in S : m <= k

\* the index of the first asteroid the bullet overlaps, 0 for none
FirstAsteroidHit(b, asts) ==
    LET hits == {j \in 1..Len(asts) :
                    Overlap(b.state.pos, asts[j].pos,
                            BULLET_RADIUS + asteroid_radius(asts[j].size))}
    IN  IF hits = {} THEN 0 ELSE MinOf(hits)

NumAsteroidHits(f) ==
    Cardinality({i \in 1..Len(f.bullets) : FirstAsteroidHit(f.bullets[i], f.asteroids) # 0})

base_points(size) ==
    CASE size = 1 -> 100
      [] size = 2 -> 50
      [] OTHER    -> 20

\* ComboUpdate with "elapsed <= COMBO_TIMEOUT_SECS" for the code's "<"
ComboUpdate_inclusive(rt, now, tnow) ==
    LET combo_active == \E t \in rt.last_kill_time : tnow - t <= COMBO_TIMEOUT_SECS
    IN  [rt EXCEPT !.combo = IF combo_active THEN Min(@ + 1, MAX_COMBO) ELSE 1,
                   !.last_kill_time = Some(now)]

\* "Check combo timing": the runtime record of the shooter after a kill
ComboUpdate(rt, now, tnow) ==
    LET combo_active == \E t \in rt.last_kill_time : tnow - t < COMBO_TIMEOUT_SECS
    IN  [rt EXCEPT !.combo = IF combo_active THEN Min(@ + 1, MAX_COMBO) ELSE 1,
                   !.last_kill_time = Some(now)]

\* "Split asteroid with velocity inheritance": the children of a destroyed
\* asteroid, their ids starting at first_id
SplitAsteroid(ast, first_id, rnd) ==
    LET Child(i) ==
            LET parent_angle == Atan2(ast.vel.y, ast.vel.x)
                new_angle == parent_angle + rnd.spread[i]
                             + (IF i = 1 THEN FRAC_PI_4 ELSE -FRAC_PI_4)
                parent_speed == ISqrt(ast.vel.x * ast.vel.x + ast.vel.y * ast.vel.y)
                new_speed == Div(parent_speed * rnd.jitter[i], 1000) + Scale
                offset_angle == IF i = 1 THEN new_angle ELSE new_angle + 4 * FRAC_PI_4
            IN  [id |-> first_id + i - 1,
                 pos |-> wrap_position(VAdd(ast.pos, Dir(offset_angle, Scale))),
                 vel |-> Dir(new_angle, new_speed),
                 size |-> ast.size - 1]
    IN  IF ast.size > 1 THEN <<Child(1), Child(2)>> ELSE <<>>

\* the body of the scan for one bullet b that overlaps the asteroid ast
HitAsteroid(f, b, ast, rnd, now, tnow) ==
    LET owner == b.state.owner_id
        credited == owner \in DOMAIN f.runtime
        rt1 == ComboUpdate(f.runtime[owner], now, tnow)
        points == base_points(ast.size) * rt1.combo
        children == SplitAsteroid(ast, f.next_id, rnd)
        nid == f.next_id + Len(children)
        drops == IF rnd.drop = "None" THEN <<>>
                 ELSE <<[state |-> [id |-> nid, pos |-> ast.pos, kind |-> rnd.drop],
                         expires_at |-> now + POWERUP_TTL_SECS]>>
    IN  [f EXCEPT
            !.bullets_to_remove = Append(@, b.state.id),
            !.asteroids_to_remove = Append(@, ast.id),
            !.runtime = IF credited THEN [@ EXCEPT ![owner] = rt1] ELSE @,
            !.players = IF credited /\ owner \in DOMAIN @
                        THEN [@ EXCEPT ![owner].score = @ + points,
                                       ![owner].combo = rt1.combo]
                        ELSE @,
            !.new_asteroids = @ \o children,
            !.power_ups = @ \o drops,
            !.next_id = nid + Len(drops),
            !.ev.kills = Append(@,
                [bullet |-> b.state.id, owner |-> owner, asteroid |-> ast.id,
                 size |-> ast.size, credited |-> credited,
                 combo_before |-> IF credited THEN f.runtime[owner].combo ELSE 0,
                 last_kill_before |-> IF credited THEN f.runtime[owner].last_kill_time
                                      ELSE None,
                 combo_after |-> IF credited THEN rt1.combo ELSE 0,
                 score_before |-> IF credited /\ owner \in DOMAIN f.players
                                  THEN f.players[owner].score ELSE 0,
                 score_after |-> IF credited /\ owner \in DOMAIN f.players
                                 THEN f.players[owner].score + points ELSE 0,
                 children |-> children,
                 drops |-> IF drops = <<>> THEN <<>> ELSE <<drops[1].state.id>>])]

RECURSIVE BulletAsteroidScan(_, _, _, _, _, _)
\* "for bullet in &s.bullets { for ast in &s.asteroids { ... break } }": bullet
\* i and those after it, the h-th hit taking the draws rnds[h]
BulletAsteroidScan(f, i, h, rnds, now, tnow) ==
    IF i > Len(f.bullets) THEN f
    ELSE LET j == FirstAsteroidHit(f.bullets[i], f.asteroids)
         IN  IF j = 0 THEN BulletAsteroidScan(f, i + 1, h, rnds, now, tnow)
             ELSE BulletAsteroidScan(
                    HitAsteroid(f, f.bullets[i], f.asteroids[j], rnds[h], now, tnow),
                    i + 1, h + 1, rnds, now, tnow)

InSeq(x, s) == \E k \in 1..Len(s) : s[k] = x

\* BulletAsteroidApply without "s.bullets.retain(...)"
BulletAsteroidApply_keeps_bullets(f) ==
    [f EXCEPT
        !.asteroids = SelectSeq(@, LAMBDA a : ~InSeq(a.id, f.asteroids_to_remove))
                      \o f.new_asteroids]

\* the three statements after the scan: retain, retain, extend
BulletAsteroidApply(f) ==
    [f EXCEPT
        !.bullets = SelectSeq(@, LAMBDA b : ~InSeq(b.state.id, f.bullets_to_remove)),
        !.asteroids = SelectSeq(@, LAMBDA a : ~InSeq(a.id, f.asteroids_to_remove))
                      \o f.new_asteroids]

\* what of the ServerState differs between the frames f and g: the scores,
\* combos and kill streaks of the players, the combo state and the effect
\* expiries of the runtime records, the entity sets, the id counter
Mutated(f, g) ==
    LET Of(h) ==
            [score |-> [id \in DOMAIN h.players |-> h.players[id].score],
             combo |-> [id \in DOMAIN h.players |-> h.players[id].combo],
             kill_streak |-> [id \in DOMAIN h.players |-> h.players[id].kill_streak],
             alive |-> [id \in DOMAIN h.players |-> h.players[id].alive],
             runtime |-> h.runtime,
             bullets |-> h.bullets, asteroids |-> h.asteroids, power_ups |-> h.power_ups,
             next_id |-> h.next_id]
    IN  {field \in DOMAIN Of(f) : Of(f)[field] # Of(g)[field]}

\* "Collision: bullet-asteroid": the scan, then the three statements after it
BulletAsteroidPhase(f, rnds, now, tnow) ==
    LET g == BulletAsteroidScan(f, 1, 1, rnds, now, tnow)
    IN  [BulletAsteroidApply(g) EXCEPT
            !.ev.mutated = ("bullet-asteroid" :> Mutated(f, g)) @@ @]

----------------------------------------------------------------------------
\* "Collision: player-power-up"

\* effect_end adding the duration to an expiry that is still running
effect_end_stacking(until, now) ==
    IF Active(until, now) THEN Some(Get(until) + POWERUP_DURATION_SECS)
    ELSE Some(now + POWERUP_DURATION_SECS)

\* the expiry a pickup gives to an effect whose expiry was `until`
effect_end(until, now) == Some(now + POWERUP_DURATION_SECS)

\* PickupScan with a power-up taken by the first live player on it alone
PickupScan_first_taker(f, now) ==
    LET alive == {id \in DOMAIN f.players : f.players[id].alive}
        On(id, k) == Overlap(f.players[id].pos, f.power_ups[k].state.pos,
                             PLAYER_RADIUS + POWERUP_RADIUS)
        Touch(id) == {k \in 1..Len(f.power_ups) :
                        On(id, k) /\ \A other \in alive : On(other, k) => id <= other}
        Kinds(id) == {f.power_ups[k].state.kind : k \in Touch(id)}
        taken == {f.power_ups[k].state.id : k \in UNION {Touch(id) : id \in alive}}
        after == [id \in DOMAIN f.runtime |->
            IF id \in alive
            THEN [f.runtime[id] EXCEPT
                    !.shield_until =
                        IF "Shield" \in Kinds(id) THEN effect_end(@, now) ELSE @,
                    !.rapid_fire_until =
                        IF "RapidFire" \in Kinds(id) THEN effect_end(@, now) ELSE @,
                    !.triple_shot_until =
                        IF "TripleShot" \in Kinds(id) THEN effect_end(@, now) ELSE @,
                    !.speed_boost_until =
                        IF "SpeedBoost" \in Kinds(id) THEN effect_end(@, now) ELSE @]
            ELSE f.runtime[id]]
    IN  [f EXCEPT
            !.runtime = after,
            !.power_ups_to_remove = taken,
            !.ev.picked = [id \in alive |-> Kinds(id)],
            !.ev.pickup = [power_ups |-> f.power_ups, players |-> f.players,
                           before |-> f.runtime, after |-> after]]

\* the scan "for player in s.players.values() { for pu in &s.power_ups"
PickupScan(f, now) ==
    LET alive == {id \in DOMAIN f.players : f.players[id].alive}
        Touch(id) == {k \in 1..Len(f.power_ups) :
                        Overlap(f.players[id].pos, f.power_ups[k].state.pos,
                                PLAYER_RADIUS + POWERUP_RADIUS)}
        Kinds(id) == {f.power_ups[k].state.kind : k \in Touch(id)}
        taken == {f.power_ups[k].state.id : k \in UNION {Touch(id) : id \in alive}}
        after == [id \in DOMAIN f.runtime |->
            IF id \in alive
            THEN [f.runtime[id] EXCEPT
                    !.shield_until =
                        IF "Shield" \in Kinds(id) THEN effect_end(@, now) ELSE @,
                    !.rapid_fire_until =
                        IF "RapidFire" \in Kinds(id) THEN effect_end(@, now) ELSE @,
                    !.triple_shot_until =
                        IF "TripleShot" \in Kinds(id) THEN effect_end(@, now) ELSE @,
                    !.speed_boost_until =
                        IF "SpeedBoost" \in Kinds(id) THEN effect_end(@, now) ELSE @]
            ELSE f.runtime[id]]
    IN  [f EXCEPT
            !.runtime = after,
            !.power_ups_to_remove = taken,
            !.ev.picked = [id \in alive |-> Kinds(id)],
            !.ev.pickup = [power_ups |-> f.power_ups, players |-> f.players,
                           before |-> f.runtime, after |-> after]]

\* the scan, then "s.power_ups.retain(|p| !power_ups_to_remove.contains(..))"
PickupPhase(f, now) ==
    LET g == PickupScan(f, now)
    IN  [g EXCEPT
            !.power_ups = SelectSeq(@, LAMBDA pu : pu.state.id \notin g.power_ups_to_remove),
            !.ev.mutated = ("player-power-up" :> Mutated(f, g)) @@ @]

----------------------------------------------------------------------------
\* apply_death, "Collision: player-asteroid", "Collision: bullet-player"

\* apply_death: the assignments to the victim's player record
KilledPlayer(p) ==
    [p EXCEPT !.alive = FALSE,
              !.score = DeathPenalty(@),
              !.respawn_timer = Some(RESPAWN_DELAY_SECS)]

\* KilledRuntime without "rt.speed_boost_until = None"
KilledRuntime_keeps_boost(rt, tnow) ==
    [rt EXCEPT !.respawn_at = Some(tnow + RESPAWN_DELAY_SECS),
               !.combo = 0,
               !.kill_streak = 0,
               !.shield_until = None,
               !.rapid_fire_until = None,
               !.triple_shot_until = None]

\* apply_death: the assignments to the victim's runtime record, the clock
\* reading of apply_death being tnow
KilledRuntime(rt, tnow) ==
    [rt EXCEPT !.respawn_at = Some(tnow + RESPAWN_DELAY_SECS),
               !.combo = 0,
               !.kill_streak = 0,
               !.shield_until = None,
               !.rapid_fire_until = None,
               !.triple_shot_until = None,
               !.speed_boost_until = None]

\* apply_death(s, victim_id, _)
apply_death(f, victim_id, tnow) ==
    [f EXCEPT
        !.players = IF victim_id \in DOMAIN @
                    THEN [@ EXCEPT ![victim_id] = KilledPlayer(@)]
                    ELSE @,
        !.runtime = IF victim_id \in DOMAIN @
                    THEN [@ EXCEPT ![victim_id] = KilledRuntime(@, tnow)]
                    ELSE @]

\* apply_death, and the record of it in ev
Die(f, victim_id, cause, shooter, tnow) ==
    LET g == apply_death(f, victim_id, tnow)
    IN  [g EXCEPT !.ev.deaths = Append(@,
            [victim |-> victim_id, cause |-> cause, shooter |-> shooter,
             before |-> [p |-> f.players[victim_id], rt |-> f.runtime[victim_id]],
             after |-> [p |-> g.players[victim_id], rt |-> g.runtime[victim_id]]])]

OverlapsAsteroid(pos, asts) ==
    \E j \in 1..Len(asts) :
        Overlap(pos, asts[j].pos, PLAYER_RADIUS + asteroid_radius(asts[j].size))

\* s.runtime.get(&player.id).map_or(false, |rt| rt.is_invincible())
Invincible(f, id, tnow) == id \in DOMAIN f.runtime /\ is_invincible(f.runtime[id], tnow)

\* players_killed_by_asteroid, in the order the scan pushes them
KilledByAsteroid(f, order, tnow) ==
    SelectSeq(order, LAMBDA id :
        /\ f.players[id].alive
        /\ ~Invincible(f, id, tnow)
        /\ OverlapsAsteroid(f.players[id].pos, f.asteroids))

RECURSIVE ApplyAsteroidDeaths(_, _, _, _)
\* "Apply asteroid deaths"
ApplyAsteroidDeaths(f, killed, i, tnow) ==
    IF i > Len(killed) THEN f
    ELSE ApplyAsteroidDeaths(Die(f, killed[i], "asteroid", 0, tnow), killed, i + 1, tnow)

PlayerAsteroidPhase(f, order, tnow) ==
    LET g == [f EXCEPT !.ev.at_test = [id \in DOMAIN f.players |->
                [alive |-> f.players[id].alive,
                 invincible_until |-> IF id \in DOMAIN f.runtime
                                      THEN f.runtime[id].invincible_until ELSE None,
                 shield_until |-> IF id \in DOMAIN f.runtime
                                  THEN f.runtime[id].shield_until ELSE None,
                 in_asteroid |-> OverlapsAsteroid(f.players[id].pos, f.asteroids)]]]
    IN  ApplyAsteroidDeaths(g, KilledByAsteroid(g, order, tnow), 1, tnow)

\* the first player, in the order of the scan, that the bullet kills; 0 for none
FirstPlayerHit(f, b, order, tnow) ==
    LET hits == {k \in 1..Len(order) :
                    /\ f.players[order[k]].alive
                    /\ order[k] # b.state.owner_id
                    /\ ~Invincible(f, order[k], tnow)
                    /\ Overlap(b.state.pos, f.players[order[k]].pos,
                               BULLET_RADIUS + PLAYER_RADIUS)}
    IN  IF hits = {} THEN 0 ELSE order[MinOf(hits)]

\* the bullets of the scan that hit a player, in the order of s.bullets
PvpHits(f, order, tnow) ==
    SelectSeq(f.bullets, LAMBDA b : FirstPlayerHit(f, b, order, tnow) # 0)

\* ApplyKill leaving the victim alone when the shooter has no runtime record
ApplyKill_needs_shooter(f, victim_id, shooter_id, tnow) ==
    IF shooter_id \notin DOMAIN f.runtime THEN f
    ELSE LET g == Die(f, victim_id, "bullet", shooter_id, tnow)
             streak == g.runtime[shooter_id].kill_streak + 1
         IN  [g EXCEPT
                !.runtime[shooter_id].kill_streak = streak,
                !.players = IF shooter_id \in DOMAIN @
                            THEN [@ EXCEPT
                                    ![shooter_id].score = @ + PVP_KILL_POINTS
                                        + (IF streak % KILL_STREAK_BONUS_INTERVAL = 0
                                           THEN KILL_STREAK_BONUS_POINTS ELSE 0),
                                    ![shooter_id].kill_streak = streak]
                            ELSE @]

\* one iteration of "Apply player kills"
ApplyKill(f, victim_id, shooter_id, tnow) ==
    LET g == Die(f, victim_id, "bullet", shooter_id, tnow)
        streak == g.runtime[shooter_id].kill_streak + 1
        streak_bonus == IF streak % KILL_STREAK_BONUS_INTERVAL = 0
                        THEN KILL_STREAK_BONUS_POINTS ELSE 0
    IN  IF shooter_id \in DOMAIN g.runtime
        THEN [g EXCEPT
                !.runtime[shooter_id].kill_streak = streak,
                !.players = IF shooter_id \in DOMAIN @
                            THEN [@ EXCEPT
                                    ![shooter_id].score = @ + PVP_KILL_POINTS + streak_bonus,
                                    ![shooter_id].kill_streak = streak]
                            ELSE @]
        ELSE g

RECURSIVE ApplyKills(_, _, _, _, _)
\* "Apply player kills": the kills of hits[i] and of the hits after it, the
\* victims as the scan found them in the frame f0
ApplyKills(f, f0, hits, i, scan) ==
    IF i > Len(hits) THEN f
    ELSE ApplyKills(
            ApplyKill(f, FirstPlayerHit(f0, hits[i], scan.order, scan.tnow),
                      hits[i].state.owner_id, scan.tnow),
            f0, hits, i + 1, scan)

BulletPlayerPhase(f, order, tnow) ==
    LET hits == PvpHits(f, order, tnow)
        bullets_hit == {hits[k].state.id : k \in 1..Len(hits)}
        g == ApplyKills(f, f, hits, 1, [order |-> order, tnow |-> tnow])
    IN  [g EXCEPT
            !.bullets = SelectSeq(@, LAMBDA b : b.state.id \notin bullets_hit),
            !.ev.pvp = [bullets |-> f.bullets, players |-> f.players,
                        runtime |-> f.runtime],
            !.ev.under_fire = {id \in DOMAIN f.players :
                f.players[id].alive /\ \E k \in 1..Len(f.bullets) :
                    /\ f.bullets[k].state.owner_id # id
                    /\ Overlap(f.bullets[k].state.pos, f.players[id].pos,
                               BULLET_RADIUS + PLAYER_RADIUS)}]

----------------------------------------------------------------------------
\* "Wave system: check if all asteroids cleared"

\* WaveDue with "now > countdown_end" for the code's "now >= countdown_end"
WaveDue_strict(f, now) ==
    /\ f.asteroids = <<>>
    /\ \E countdown_end \in f.wave_countdown : now > countdown_end

WaveDue(f, now) ==
    /\ f.asteroids = <<>>
    /\ \E countdown_end \in f.wave_countdown : now >= countdown_end

\* WaveSize without ".min(100)"
WaveSize_uncapped(wave) == ASTEROID_COUNT + (wave - 1) * ASTEROIDS_PER_WAVE

\* WaveSize with "current_wave" for "current_wave - 1"
WaveSize_from_zero(wave) == Min(ASTEROID_COUNT + wave * ASTEROIDS_PER_WAVE, WAVE_CAP)

\* asteroid_count.min(100)
WaveSize(wave) == Min(ASTEROID_COUNT + (wave - 1) * ASTEROIDS_PER_WAVE, WAVE_CAP)

WavePhase(f, now, layout) ==
    IF f.asteroids # <<>> THEN f
    ELSE IF f.wave_countdown = None
    THEN [f EXCEPT !.wave_countdown = Some(now + WAVE_COUNTDOWN_SECS)]
    ELSE IF WaveDue(f, now)
    THEN [f EXCEPT
            !.current_wave = @ + 1,
            !.asteroids = spawn_asteroids(WaveSize(f.current_wave + 1), f.next_id, layout),
            !.next_id = @ + WaveSize(f.current_wave + 1),
            !.wave_countdown = None,
            !.ev.wave_spawned = WaveSize(f.current_wave + 1)]
    ELSE f

----------------------------------------------------------------------------
\* tick() and the tick loop of main.

\* the gaps between two ticks: the ticker's period, or a stall
TickSteps == {TickMs, StallMs}

\* the frame at the start of tick(), its clock readings being now and tnow
Frame(now, tnow) ==
    [next_id |-> next_id, players |-> players, runtime |-> runtime,
     bullets |-> bullets, asteroids |-> asteroids, power_ups |-> power_ups,
     current_wave |-> current_wave, wave_countdown |-> wave_countdown,
     bullets_to_remove |-> <<>>, asteroids_to_remove |-> <<>>, new_asteroids |-> <<>>,
     power_ups_to_remove |-> {},
     ev |-> [EmptyLog EXCEPT !.kind = "tick", !.now = now, !.tnow = tnow]]

\* tick() up to the bullet-asteroid scan
TickMove(now, tnow, order, spawn) ==
    UpdatePhase(
        PlayerLoop(SyncPhase(RespawnPhase(Frame(now, tnow), now, spawn), now, tnow),
                   order, 1, tnow),
        now)

\* TickCollide with the player-asteroid test before the pickups
TickCollide_asteroids_first(f, now, tnow, order, rnds) ==
    BulletPlayerPhase(
        PickupPhase(
            PlayerAsteroidPhase(BulletAsteroidPhase(f, rnds, now, tnow), order, tnow),
            now),
        order, tnow)

\* tick() from the bullet-asteroid scan to the wave check
TickCollide(f, now, tnow, order, rnds) ==
    BulletPlayerPhase(
        PlayerAsteroidPhase(
            PickupPhase(BulletAsteroidPhase(f, rnds, now, tnow), now),
            order, tnow),
        order, tnow)

\* Send giving up at the first client whose receiver is dropped
Send_until_failure(to, msg) ==
    [to |-> IF to \cap closed = {} THEN to ELSE {}, failed |-> to \cap closed, msg |-> msg]

\* tx.send(msg) on the channels of the clients `to`, the result dropped: the
\* message is queued for the clients whose receiver lives and lost for the others
Send(to, msg) == [to |-> to \ closed, failed |-> to \cap closed, msg |-> msg]

\* ServerMsg::State, assembled under the lock after tick(): the player, asteroid,
\* bullet and power-up states and the wave info, its countdown read off the
\* clock at tnow
StateMsg(f, tnow) ==
    [type |-> "State",
     players |-> f.players,
     asteroids |-> f.asteroids,
     bullets |-> [i \in 1..Len(f.bullets) |-> f.bullets[i].state],
     power_ups |-> [i \in 1..Len(f.power_ups) |-> f.power_ups[i].state],
     wave |-> [wave_number |-> f.current_wave,
               asteroids_remaining |-> Len(f.asteroids),
               countdown |-> IF f.wave_countdown = None THEN None
                             ELSE IF Get(f.wave_countdown) > tnow
                             THEN Some(Get(f.wave_countdown) - tnow)
                             ELSE Some(0)]]

\* one round of the tick loop: the ticker fires, the lock is taken, tick() runs,
\* the State message is broadcast
Tick ==
    /\ budget > 0
    /\ \E step \in TickSteps, order \in Orders(DOMAIN players) :
        LET now == clock + step
            tnow == now + lag
        IN  \E spawn \in [RespawnDue(runtime, now) \cap DOMAIN players
                            -> find_safe_spawn_position(asteroids)] :
            \E f1 \in {TickMove(now, tnow, order, spawn)} :
                \E rnds \in [1..NumAsteroidHits(f1) -> HitDraws] :
                \E f2 \in {TickCollide(f1, now, tnow, order, rnds)} :
                \E layout \in (IF WaveDue(f2, now) THEN Layouts ELSE {1}) :
                \E f \in {WavePhase(f2, now, layout)} :
                        /\ clock' = tnow
                        /\ next_id' = f.next_id
                        /\ players' = f.players
                        /\ runtime' = f.runtime
                        /\ bullets' = f.bullets
                        /\ asteroids' = f.asteroids
                        /\ power_ups' = f.power_ups
                        /\ current_wave' = f.current_wave
                        /\ wave_countdown' = f.wave_countdown
                        /\ log' = [f.ev EXCEPT !.sent = <<Send(clients, StateMsg(f, tnow))>>]
                        /\ budget' = budget - 1
                        /\ UNCHANGED <<lag, clients, readers, closed, heard>>

----------------------------------------------------------------------------
\* handle_client and disconnect.

\* the Input messages a client sends
Inputs ==
    {PlayerInputDefault,
     [thrust |-> FALSE, rotate |-> 0, fire |-> TRUE],
     [thrust |-> TRUE, rotate |-> 1, fire |-> FALSE]}

\* the names a client joins with
Names == {"A", "B"}

\* The tick loop outlives every connection: the last step of a behaviour is a
\* tick.
MayHandle == budget > 1

\* a handler step of the connection `who` that sent the messages `sent`
Handled(kind, who, sent) ==
    /\ log' = [EmptyLog EXCEPT !.kind = kind, !.who = who, !.now = clock, !.tnow = clock,
                               !.sent = sent]
    /\ budget' = budget - 1

\* Connect leaving the counter where it is
Connect_keeps_counter ==
    /\ MayHandle
    /\ Cardinality(clients) < MaxClients
    /\ next_id' = next_id
    /\ clients' = clients \cup {next_id}
    /\ readers' = readers \cup {next_id}
    /\ Handled("connect", next_id,
               <<Send({next_id}, [type |-> "Welcome", id |-> next_id, tick_hz |-> TICK_HZ]),
                 Send({next_id}, [type |-> "System", text |-> "Welcome to rusted-asteroids"])>>)
    /\ UNCHANGED <<clock, lag, players, runtime, bullets, asteroids, closed, heard, power_ups,
                   current_wave, wave_countdown>>

\* a connection is accepted: the id and the registry entry
Connect ==
    /\ MayHandle
    /\ Cardinality(clients) < MaxClients
    /\ next_id' = next_id + 1
    /\ clients' = clients \cup {next_id}
    /\ readers' = readers \cup {next_id}
    /\ Handled("connect", next_id,
               <<Send({next_id}, [type |-> "Welcome", id |-> next_id, tick_hz |-> TICK_HZ]),
                 Send({next_id}, [type |-> "System", text |-> "Welcome to rusted-asteroids"])>>)
    /\ UNCHANGED <<clock, lag, players, runtime, bullets, asteroids, closed, heard, power_ups,
                   current_wave, wave_countdown>>

\* Join without "if !s.players.contains_key(&id)"
Join_unguarded(id, name) ==
    /\ MayHandle
    /\ id \in readers
    /\ \E pos \in find_safe_spawn_position(asteroids), angle \in SpawnAngles :
            /\ players' = [k \in DOMAIN players \cup {id} |->
                            IF k = id THEN spawn_player(id, name, pos, angle)
                            ELSE players[k]]
            /\ runtime' = [k \in DOMAIN runtime \cup {id} |->
                            IF k = id
                            THEN [PlayerRuntimeNew(clock) EXCEPT
                                    !.invincible_until =
                                        Some(clock + SPAWN_INVINCIBILITY_SECS)]
                            ELSE runtime[k]]
    /\ Handled("join", id,
               <<Send(clients, [type |-> "System", text |-> <<name, "joined the room">>])>>)
    /\ UNCHANGED <<clock, lag, next_id, bullets, asteroids, clients, readers, closed,
                   heard, power_ups,
                   current_wave, wave_countdown>>

\* ClientMsg::Join { name } from the client id
Join(id, name) ==
    /\ MayHandle
    /\ id \in readers
    /\ IF id \notin DOMAIN players
       THEN \E pos \in find_safe_spawn_position(asteroids), angle \in SpawnAngles :
            /\ players' = [k \in DOMAIN players \cup {id} |->
                            IF k = id THEN spawn_player(id, name, pos, angle)
                            ELSE players[k]]
            /\ runtime' = [k \in DOMAIN runtime \cup {id} |->
                            IF k = id
                            THEN [PlayerRuntimeNew(clock) EXCEPT
                                    !.invincible_until =
                                        Some(clock + SPAWN_INVINCIBILITY_SECS)]
                            ELSE runtime[k]]
       ELSE UNCHANGED <<players, runtime>>
    /\ Handled("join", id,
               <<Send(clients, [type |-> "System", text |-> <<name, "joined the room">>])>>)
    /\ UNCHANGED <<clock, lag, next_id, bullets, asteroids, clients, readers, closed,
                   heard, power_ups,
                   current_wave, wave_countdown>>

\* Input keeping the input of a client without a runtime record in a new one
Input_keeps(id, input) ==
    /\ MayHandle
    /\ id \in readers
    /\ runtime' = [k \in DOMAIN runtime \cup {id} |->
                    IF k # id THEN runtime[k]
                    ELSE IF id \in DOMAIN runtime
                         THEN [runtime[id] EXCEPT !.input = input]
                         ELSE [PlayerRuntimeNew(clock) EXCEPT !.input = input]]
    /\ heard' = (id :> [input |-> input, fresh |-> id \in DOMAIN runtime]) @@ heard
    /\ Handled("input", id, <<>>)
    /\ UNCHANGED <<clock, lag, next_id, players, bullets, asteroids, clients, readers, closed,
                   power_ups, current_wave, wave_countdown>>

\* ClientMsg::Input(input) from the client id
Input(id, input) ==
    /\ MayHandle
    /\ id \in readers
    /\ runtime' = IF id \in DOMAIN runtime
                  THEN [runtime EXCEPT ![id].input = input]
                  ELSE runtime
    /\ heard' = (id :> [input |-> input, fresh |-> id \in DOMAIN runtime]) @@ heard
    /\ Handled("input", id, <<>>)
    /\ UNCHANGED <<clock, lag, next_id, players, bullets, asteroids, clients, readers, closed,
                   power_ups, current_wave, wave_countdown>>

\* Disconnect without "s.runtime.remove(&id)"
Disconnect_keeps_runtime(id) ==
    /\ MayHandle
    /\ id \in readers
    /\ clients' = clients \ {id}
    /\ readers' = readers \ {id}
    /\ closed' = closed \ {id}
    /\ heard' = [k \in DOMAIN heard \ {id} |-> heard[k]]
    /\ runtime' = runtime
    /\ players' = [k \in DOMAIN players \ {id} |-> players[k]]
    /\ Handled("disconnect", id,
               IF id \in DOMAIN players
               THEN <<Send(clients \ {id},
                           [type |-> "System", text |-> <<players[id].name, "left the room">>])>>
               ELSE <<>>)
    /\ UNCHANGED <<clock, lag, next_id, bullets, asteroids, power_ups,
                   current_wave, wave_countdown>>

\* the read loop of the client id ends at the end of the stream:
\* disconnect(id, state)
Disconnect(id) ==
    /\ MayHandle
    /\ id \in readers
    /\ clients' = clients \ {id}
    /\ readers' = readers \ {id}
    /\ closed' = closed \ {id}
    /\ heard' = [k \in DOMAIN heard \ {id} |-> heard[k]]
    /\ runtime' = [k \in DOMAIN runtime \ {id} |-> runtime[k]]
    /\ players' = [k \in DOMAIN players \ {id} |-> players[k]]
    /\ Handled("disconnect", id,
               IF id \in DOMAIN players
               THEN <<Send(clients \ {id},
                           [type |-> "System", text |-> <<players[id].name, "left the room">>])>>
               ELSE <<>>)
    /\ UNCHANGED <<clock, lag, next_id, bullets, asteroids, power_ups,
                   current_wave, wave_countdown>>

\* reader.next_line() of the client id returns an error, which the "?" returns
\* from handle_client: the statements after the read loop are not run
ReadError(id) ==
    /\ MayHandle
    /\ id \in readers
    /\ readers' = readers \ {id}
    /\ Handled("read_error", id, <<>>)
    /\ UNCHANGED <<clock, lag, next_id, players, runtime, bullets, asteroids, clients,
                   closed, heard, power_ups, current_wave, wave_countdown>>

\* the texts of a chat line and the nonces of a ping
Texts == {"gg"}
Nonces == {7}

\* ClientMsg::Chat { text } from the client id
Chat(id, text) ==
    /\ MayHandle
    /\ id \in readers
    /\ Handled("chat", id,
               <<Send(clients,
                      [type |-> "Chat",
                       from |-> IF id \in DOMAIN players THEN players[id].name
                                ELSE <<"Player", id>>,
                       text |-> text])>>)
    /\ UNCHANGED <<clock, lag, next_id, players, runtime, bullets, asteroids, clients,
                   readers, closed, heard, power_ups, current_wave, wave_countdown>>

\* ClientMsg::Ping { nonce } from the client id
Ping(id, nonce) ==
    /\ MayHandle
    /\ id \in readers
    /\ Handled("ping", id, <<Send({id}, [type |-> "Pong", nonce |-> nonce])>>)
    /\ UNCHANGED <<clock, lag, next_id, players, runtime, bullets, asteroids, clients,
                   readers, closed, heard, power_ups, current_wave, wave_countdown>>

\* BadLine ending the connection as the end of the stream does
BadLine_fatal(id) ==
    /\ MayHandle
    /\ id \in readers
    /\ clients' = clients \ {id}
    /\ readers' = readers \ {id}
    /\ closed' = closed \ {id}
    /\ heard' = [k \in DOMAIN heard \ {id} |-> heard[k]]
    /\ runtime' = [k \in DOMAIN runtime \ {id} |-> runtime[k]]
    /\ players' = [k \in DOMAIN players \ {id} |-> players[k]]
    /\ Handled("bad_line", id, <<>>)
    /\ UNCHANGED <<clock, lag, next_id, bullets, asteroids, power_ups,
                   current_wave, wave_countdown>>

\* a line from the client id that serde_json::from_str rejects: "continue"
BadLine(id) ==
    /\ MayHandle
    /\ id \in readers
    /\ Handled("bad_line", id, <<>>)
    /\ UNCHANGED <<clock, lag, next_id, players, runtime, bullets, asteroids, clients,
                   readers, closed, heard, power_ups, current_wave, wave_countdown>>

\* The step is one whole operation, from taking the lock to handing the
\* messages to the channels: no process is left in the middle of an operation.
Atomic == UNCHANGED <<lock, pc>>

ConnectStep == Connect /\ Atomic

JoinStep == \E id \in readers, name \in Names : Join(id, name) /\ Atomic

InputStep == \E id \in readers, input \in Inputs : Input(id, input) /\ Atomic

DisconnectStep == \E id \in readers : Disconnect(id) /\ Atomic

ChatStep == \E id \in readers, text \in Texts : Chat(id, text) /\ Atomic

PingStep == \E id \in readers, nonce \in Nonces : Ping(id, nonce) /\ Atomic

BadLineStep == \E id \in readers : BadLine(id) /\ Atomic

ReadErrorStep == \E id \in readers : ReadError(id) /\ Atomic

TickStep == Tick /\ Atomic

\* the write task of the client id fails to write to its socket and breaks out
\* of its loop: the receiver of the client's channel is dropped, the sender
\* stays in the registry
WriteError(id) ==
    /\ id \in clients \ closed
    /\ closed' = closed \cup {id}
    /\ log' = [EmptyLog EXCEPT !.kind = "write_error", !.who = id, !.now = clock,
                               !.tnow = clock]
    /\ UNCHANGED <<clock, lag, next_id, players, runtime, bullets, asteroids, clients,
                   readers, heard, power_ups, current_wave, wave_countdown, budget>>

WriteErrorStep == \E id \in clients : WriteError(id) /\ Atomic

----------------------------------------------------------------------------
\* The server from its start.

\* ServerState::new(), spawn_asteroids drawing the layout l
ServerStateNew(l) ==
    [next_id |-> 1 + ASTEROID_COUNT, players |-> <<>>, runtime |-> <<>>,
     bullets |-> <<>>, asteroids |-> spawn_asteroids(ASTEROID_COUNT, 1, l),
     clients |-> {}, power_ups |-> <<>>, current_wave |-> 1, wave_countdown |-> None]

\* the variables hold the ServerState s at the time t
Holds(s, t) ==
    /\ clock = t
    /\ next_id = s.next_id
    /\ players = s.players
    /\ runtime = s.runtime
    /\ bullets = s.bullets
    /\ asteroids = s.asteroids
    /\ clients = s.clients
    /\ readers = s.clients
    /\ closed = {}
    /\ lock = None
    /\ pc = <<>>
    /\ heard = [id \in DOMAIN s.runtime |-> [input |-> s.runtime[id].input, fresh |-> TRUE]]
    /\ power_ups = s.power_ups
    /\ current_wave = s.current_wave
    /\ wave_countdown = s.wave_countdown

\* the server after ServerState::new
New(steps) ==
    /\ \E l \in Layouts : Holds(ServerStateNew(l), 0)
    /\ log = EmptyLog
    /\ lag \in {0, MaxLag}
    /\ budget = steps

Init == New(StartSteps)

Next ==
    \/ ConnectStep \/ JoinStep \/ InputStep \/ ChatStep \/ PingStep \/ BadLineStep
    \/ DisconnectStep \/ ReadErrorStep \/ TickStep

Spec == Init /\ [][Next]_vars

----------------------------------------------------------------------------
\* The server in the middle of a game.  Each state below is one the server
\* reaches from ServerState::new() by joins, inputs and ticks; the behaviours
\* that begin in them are the continuations of those runs.

\* the time of the most recent clock reading in these states
T0 == 600 * 1000

\* a PlayerState as the tick that ended at T0 left it: a player that joined
\* as name, with the fields that tick synced from its runtime record rt
MidPlayer(id, name, pos, vel, angle, score, rt) ==
    [id |-> id, name |-> name, pos |-> pos, vel |-> vel, angle |-> angle,
     alive |-> rt.respawn_at = None, score |-> score, combo |-> rt.combo,
     kill_streak |-> rt.kill_streak,
     respawn_timer |-> IF rt.respawn_at = None THEN None
                       ELSE Some(Get(rt.respawn_at) - (T0 - lag)),
     effects |-> get_effects(rt, T0)]

\* a PlayerRuntime whose spawn invincibility and power-ups ran out long ago
MidRuntime(input) ==
    [PlayerRuntimeNew(T0 - 1000) EXCEPT
        !.input = input, !.invincible_until = Some(T0 - 60000)]

FireInput == [thrust |-> FALSE, rotate |-> 0, fire |-> TRUE]

\* the ServerState with the players ps and their runtime records rts, the
\* asteroids asts, no bullets and no power-ups
MidState(ps, rts, asts, wave, countdown) ==
    [next_id |-> 1000, players |-> ps, runtime |-> rts, bullets |-> <<>>,
     asteroids |-> asts, clients |-> DOMAIN ps, power_ups |-> <<>>,
     current_wave |-> wave, wave_countdown |-> countdown]

\* Two players at the same place, 4 units right of asteroid 1 (in layout 1 it
\* is of size 3 and overlaps them, in layout 2 of size 1 and does not).  51
\* holds fire; 52 has the score `score`, three running power-ups, a shield
\* that ran out or runs for another second, or a spawn invincibility that does.
Duel(l, prot, score) ==
    LET pos == Vec2(16 * Scale, 4 * Scale)
        rt1 == [MidRuntime(FireInput) EXCEPT !.kill_streak = 2]
        rt2 == [MidRuntime(PlayerInputDefault) EXCEPT
                    !.invincible_until =
                        IF prot = "spawn" THEN Some(T0 + 1000) ELSE @,
                    !.shield_until =
                        IF prot = "shield" THEN Some(T0 + 1000) ELSE Some(T0 - 10),
                    !.rapid_fire_until = Some(T0 + 5000),
                    !.triple_shot_until = Some(T0 + 5000),
                    !.speed_boost_until = Some(T0 + 5000),
                    !.combo = 4, !.kill_streak = 1,
                    !.last_kill_time = Some(T0 - 200)]
    IN  MidState(
            (51 :> MidPlayer(51, "A", pos, Vec2(0, 0), 0, 300, rt1))
                @@ (52 :> MidPlayer(52, "B", pos, Vec2(20, 0), FRAC_PI_4, score, rt2)),
            (51 :> rt1) @@ (52 :> rt2),
            spawn_asteroids(ASTEROID_COUNT, 1, l), 1, None)

\* the scores of player 52 in Duel: 117, and 786447 = 17 + 786430, the score
\* after a death at 20 points and kills worth 786430 points
DuelScores == {117, 786447}

\* Players at the same place, 3 units left of asteroid 1 (of size 3, 1, 2 in
\* the layouts 1, 2, 3), heading for it with fire held and a shield that runs
\* for another second.  Variant 1: player 52 alone, with triple shot and no kill
\* yet.  Variants 2 and 3: player 51 at the largest combo, and player 52 with a
\* kill 0.1 s ago or one 2.95 s ago.
Salvo(l, variant) ==
    LET pos == Vec2(9 * Scale, 4 * Scale)
        shielded == [MidRuntime(FireInput) EXCEPT !.shield_until = Some(T0 + 1000)]
        rt1 == [shielded EXCEPT !.combo = MAX_COMBO, !.last_kill_time = Some(T0 - 100)]
        rt2 == CASE variant = 1 -> [shielded EXCEPT !.triple_shot_until = Some(T0 + 5000)]
                 [] variant = 2 -> [shielded EXCEPT !.combo = 2,
                                        !.last_kill_time = Some(T0 - 100)]
                 [] OTHER -> [shielded EXCEPT !.combo = 4,
                                  !.last_kill_time = Some(T0 - 2950)]
        p1 == MidPlayer(51, "A", pos, Vec2(0, 0), 0, 5000, rt1)
        p2 == MidPlayer(52, "B", pos, Vec2(0, 0), 0, 40, rt2)
    IN  MidState(
            IF variant = 1 THEN (52 :> p2) ELSE (51 :> p1) @@ (52 :> p2),
            IF variant = 1 THEN (52 :> rt2) ELSE (51 :> rt1) @@ (52 :> rt2),
            spawn_asteroids(ASTEROID_COUNT, 1, l), 1, None)

\* One player that died 1.5 s before `deadline` and still holds thrust and
\* fire, in layout 1.
Downed(deadline) ==
    LET rt == [MidRuntime([thrust |-> TRUE, rotate |-> 1, fire |-> TRUE]) EXCEPT
                    !.respawn_at = Some(deadline),
                    !.last_kill_time = Some(T0 - 2000)]
    IN  MidState(
            (51 :> MidPlayer(51, "A", Vec2(9 * Scale, 4 * Scale), Vec2(120, -50),
                             FRAC_PI_4, 500, rt)),
            (51 :> rt), spawn_asteroids(ASTEROID_COUNT, 1, 1), 1, None)

\* One player with fire held, 3 units left of where asteroid 1 of a wave
\* appears.  The wave `wave` is cleared: its last asteroid, of size 1, is about
\* to be shot (no countdown yet), or the countdown to the next wave ends in
\* 50 ms.
Cleared(wave, counting) ==
    LET rt == [MidRuntime(FireInput) EXCEPT
                    !.combo = 3, !.last_kill_time = Some(T0 - 2900)]
        last == [id |-> 900, pos |-> Vec2(12 * Scale, 4 * Scale),
                 vel |-> Vec2(0, 0), size |-> 1]
    IN  MidState(
            (51 :> MidPlayer(51, "A", Vec2(9 * Scale, 4 * Scale), Vec2(0, 0), 0, 1000, rt)),
            (51 :> rt),
            IF counting THEN <<>> ELSE <<last>>,
            wave,
            IF counting THEN Some(T0 + 50) ELSE None)

\* the variables hold one of the mid-game states of S, ticks more ticks to run
Mid(S, steps) ==
    /\ lag \in {0, MaxLag}
    /\ \E s \in S : Holds(s, T0)
    /\ log = [EmptyLog EXCEPT !.kind = "mid", !.now = T0 - lag, !.tnow = T0]
    /\ budget = steps

InitDuel ==
    Mid({Duel(l, prot, score) :
            l \in Layouts, prot \in {"none", "spawn", "shield"}, score \in DuelScores},
        DuelSteps)

InitSalvo == Mid({Salvo(1, 1), Salvo(2, 2), Salvo(3, 3)}, SalvoSteps)

InitDowned ==
    Mid({Downed(T0 + 50), Downed(T0 + 51), Duel(1, "none", 117)}, DownedSteps)

\* the server just started, or a wave is cleared
InitWave ==
    \/ New(WaveSteps)
    \/ Mid({Cleared(1, TRUE), Cleared(11, TRUE), Cleared(11, FALSE)}, WaveSteps)

\* Salvo with an asteroid 1 that leaves no children in the variant of the
\* triple shot
InitCombo == Mid({Salvo(2, 1), Salvo(2, 2), Salvo(3, 3)}, SalvoSteps)

SpecDuel == InitDuel /\ [][Next]_vars

SpecSalvo == InitSalvo /\ [][Next]_vars

SpecCombo == InitCombo /\ [][Next]_vars

\* A round of the tick loop, told by what it does to the clock: Tick is the only
\* action that reads the clock anew, and it can whenever a step is left.
TickTaken == budget > 0 /\ clock' \in {clock + step + lag : step \in TickSteps}

\* the ticker fires for as long as the server runs
SpecDowned == InitDowned /\ [][Next]_vars /\ WF_clock(TickTaken)

SpecWave == InitWave /\ [][Next]_vars

----------------------------------------------------------------------------
\* Properties of deaths and respawns.

IsTick == log.kind = "tick"

\* protected at the collision tests of the last tick, which read the clock at
\* log.tnow
ProtectedAtTest(id) ==
    \/ Active(log.at_test[id].invincible_until, log.tnow)
    \/ Active(log.at_test[id].shield_until, log.tnow)

Died(id) == \E k \in 1..Len(log.deaths) : log.deaths[k].victim = id

\* C1: in every tick, a player that is alive at the collision tests and whose
\* spawn-invincibility expiry or shield expiry is still in the future is killed
\* by neither the player-asteroid test nor the bullet-player test, whatever it
\* overlaps, and is alive at the end of the tick.
C1_ProtectedSurvives ==
    IsTick =>
        \A id \in DOMAIN log.at_test :
            (log.at_test[id].alive /\ ProtectedAtTest(id)) =>
                /\ ~Died(id)
                /\ id \in DOMAIN players
                /\ players[id].alive

\* a player under a shield alone, inside an asteroid and inside an enemy bullet
\* at the tests of one tick, and alive after it
C1_Witness ==
    /\ IsTick
    /\ \E id \in DOMAIN log.at_test :
        /\ log.at_test[id].alive
        /\ Active(log.at_test[id].shield_until, log.tnow)
        /\ ~Active(log.at_test[id].invincible_until, log.tnow)
        /\ log.at_test[id].in_asteroid
        /\ id \in log.under_fire
        /\ players[id].alive

UnchangedByDeath(d) ==
    /\ d.after.rt.invincible_until = d.before.rt.invincible_until
    /\ d.after.p.pos = d.before.p.pos
    /\ d.after.p.vel = d.before.p.vel
    /\ d.after.p.angle = d.before.p.angle

DeathApplied(d) ==
    /\ d.after.p.alive = FALSE
    /\ d.after.p.respawn_timer = Some(RESPAWN_DELAY_SECS)
    /\ d.after.rt.respawn_at = Some(log.tnow + RESPAWN_DELAY_SECS)
    /\ d.after.rt.combo = 0
    /\ d.after.rt.kill_streak = 0
    /\ d.after.rt.shield_until = None
    /\ d.after.rt.rapid_fire_until = None
    /\ d.after.rt.triple_shot_until = None
    /\ d.after.rt.speed_boost_until = None

\* C2: every death applied in a tick, by an asteroid or by a bullet, leaves the
\* victim with alive = false, a respawn countdown of 1.5 s (a deadline 1.5 s
\* after the clock reading of the death), combo 0 and kill streak 0 in its
\* runtime record, and no shield, rapid-fire, triple-shot or speed-boost expiry;
\* the spawn-invincibility expiry, position, velocity and heading are as before.
C2_DeathEffects ==
    IsTick =>
        \A k \in 1..Len(log.deaths) :
            DeathApplied(log.deaths[k]) /\ UnchangedByDeath(log.deaths[k])

\* a player shot by another while it has a combo, a kill streak, a speed and
\* all four power-ups
C2_Witness ==
    /\ IsTick
    /\ \E k \in 1..Len(log.deaths) :
        LET d == log.deaths[k]
        IN  /\ d.cause = "bullet"
            /\ d.before.p.alive
            /\ d.before.rt.combo > 0
            /\ d.before.rt.kill_streak > 0
            /\ d.before.rt.shield_until # None
            /\ d.before.rt.rapid_fire_until # None
            /\ d.before.rt.triple_shot_until # None
            /\ d.before.rt.speed_boost_until # None
            /\ d.before.rt.invincible_until # None
            /\ d.before.p.vel # Vec2(0, 0)
            /\ d.before.p.angle # 0

\* C3: a death replaces the victim's score s by floor(s * 85 / 100).
C3_PenaltyIsFloor85 ==
    IsTick =>
        \A k \in 1..Len(log.deaths) :
            log.deaths[k].after.p.score = (log.deaths[k].before.p.score * 85) \div 100

InsideWorld(pos) ==
    /\ 0 <= pos.x /\ pos.x < WORLD_WIDTH
    /\ 0 <= pos.y /\ pos.y < WORLD_HEIGHT

\* C4: every player whose respawn deadline has passed at a tick's clock
\* reading was dead and is, by that tick, alive with velocity (0,0), a position
\* inside the world, no respawn countdown in the player record and none in the
\* runtime record, and a spawn-invincibility expiry 2.5 s after that clock
\* reading; its score and name are those it had, and it is alive at the end of
\* the tick.
C4_RespawnEffects ==
    IsTick =>
        \A id \in DOMAIN log.respawns :
            LET r == log.respawns[id]
            IN  /\ ~r.before.p.alive
                /\ r.before.rt.respawn_at # None
                /\ log.now >= Get(r.before.rt.respawn_at)
                /\ r.after.p.alive
                /\ r.after.p.vel = Vec2(0, 0)
                /\ InsideWorld(r.after.p.pos)
                /\ r.after.p.respawn_timer = None
                /\ r.after.rt.respawn_at = None
                /\ r.after.rt.invincible_until = Some(log.now + SPAWN_INVINCIBILITY_SECS)
                /\ r.after.p.score = r.before.p.score
                /\ r.after.p.name = r.before.p.name
                /\ id \in DOMAIN players
                /\ players[id].alive
                /\ players[id].score >= r.before.p.score
                /\ players[id].name = r.before.p.name

\* a respawn of a player that had a score and a speed, in a tick whose later
\* clock readings differ from its first
C4_Witness ==
    /\ IsTick
    /\ log.tnow > log.now
    /\ \E id \in DOMAIN log.respawns :
        /\ log.respawns[id].before.p.vel # Vec2(0, 0)
        /\ log.respawns[id].before.p.score > 0
        /\ log.respawns[id].before.p.pos # log.respawns[id].after.p.pos
        /\ players[id].alive

\* the ids a player can have in the runs from a downed player
PlayerIds == {51} \cup (1000..(1000 + MaxClients))

DeadlineSet(id) == runtime[id].respawn_at # None

\* alive = false exactly when a respawn deadline is set
DeadIffDeadline ==
    \A id \in DOMAIN players :
        id \in DOMAIN runtime /\ (players[id].alive <=> ~DeadlineSet(id))

\* one step of a connected player: a dead one stays dead outside ticks and in
\* ticks that run before its deadline, and is alive after a tick that runs at
\* or after it; a death sets the deadline 1.5 s after the death's clock reading
LifeStep ==
    \A id \in DOMAIN players :
        (id \in DOMAIN players' /\ id \in DOMAIN runtime /\ id \in DOMAIN runtime') =>
            /\ (~players[id].alive /\ log'.kind # "tick") => ~players'[id].alive
            /\ (~players[id].alive /\ log'.kind = "tick") =>
                    (players'[id].alive <=> log'.now >= Get(runtime[id].respawn_at))
            /\ (players[id].alive /\ ~players'[id].alive) =>
                    /\ log'.kind = "tick"
                    /\ runtime'[id].respawn_at = Some(log'.tnow + RESPAWN_DELAY_SECS)

\* a dead player whose deadline the next tick reaches, the ticker still running
RespawnPending(id) ==
    /\ id \in DOMAIN players
    /\ id \in DOMAIN runtime
    /\ ~players[id].alive
    /\ DeadlineSet(id)
    /\ budget > 0
    /\ clock + TickMs >= Get(runtime[id].respawn_at)

\* C5: at every tick boundary a player is dead exactly when its runtime record
\* has a respawn deadline; a player killed at time t has the deadline t + 1.5 s,
\* stays dead in every tick that runs before it and, while connected, is alive
\* at the end of the first tick that runs at or after it; and a dead player whose
\* deadline the ticker reaches is eventually alive again or gone.
C5_Lifecycle ==
    /\ []DeadIffDeadline
    /\ [][LifeStep]_vars
    /\ \A id \in PlayerIds :
        RespawnPending(id) ~> (id \notin DOMAIN players \/ players[id].alive)

\* a player that died after T0 respawns in a tick that runs exactly at its
\* deadline
C5_Witness ==
    /\ IsTick
    /\ \E id \in DOMAIN log.respawns :
        /\ log.now = Get(log.respawns[id].before.rt.respawn_at)
        /\ log.now > T0 + RESPAWN_DELAY_SECS
        /\ ~log.respawns[id].before.p.alive
        /\ players[id].alive
        /\ runtime[id].respawn_at = None

----------------------------------------------------------------------------
\* Properties of asteroid kills.

KillCombo(r) ==
    IF \/ r.last_kill_before = None
       \/ log.tnow - Get(r.last_kill_before) >= COMBO_TIMEOUT_SECS
    THEN 1
    ELSE Min(r.combo_before + 1, MAX_COMBO)

C7_ResolvedOnce ==
    IsTick =>
        \A j, k \in 1..Len(log.kills) :
            j # k => log.kills[j].asteroid # log.kills[k].asteroid

\* the ids of the asteroids added in the last tick because of asteroid a
ChildrenOf(a) ==
    UNION {{log.kills[k].children[i].id : i \in 1..Len(log.kills[k].children)} :
            k \in {j \in 1..Len(log.kills) : log.kills[j].asteroid = a}}

\* C8: for every asteroid destroyed in a tick exactly 2 asteroids are added
\* when its size is 3 or 2, and none when its size is 1.
C8_ChildrenPerAsteroid ==
    IsTick =>
        \A k \in 1..Len(log.kills) :
            Cardinality(ChildrenOf(log.kills[k].asteroid))
                = IF log.kills[k].size > 1 THEN 2 ELSE 0

----------------------------------------------------------------------------
\* Properties of waves.

WaveSpawned == IsTick /\ log.wave_spawned > 0

\* C9: the server starts with at most 100 asteroids and every wave spawn
\* leaves at most 100 asteroids in the world.
C9_SpawnWithinCap ==
    (log.kind = "new" \/ WaveSpawned) => Len(asteroids) <= 100

\* the spawn of wave 12, the first one that the cap cuts
C9_Witness ==
    /\ WaveSpawned
    /\ current_wave = 12
    /\ Len(asteroids) = 100

\* C9 as stated: at most 100 asteroids in every state.
C9_AtMostCap == Len(asteroids) <= 100

WaveStep ==
    /\ (log'.kind = "tick" /\ log'.wave_spawned > 0) =>
            /\ current_wave' = current_wave + 1
            /\ Len(asteroids') = Min(50 + 5 * (current_wave' - 1), 100)
            /\ log'.wave_spawned = Len(asteroids')
            /\ asteroids = <<>>
    /\ ~(log'.kind = "tick" /\ log'.wave_spawned > 0) => current_wave' = current_wave

\* C10: the server starts in wave 1 with 50 asteroids; every wave spawn raises
\* the wave number by exactly 1 and creates min(50 + 5 * (w - 1), 100)
\* asteroids, w being the new wave number; no other step changes the wave
\* number.
C10_Waves ==
    /\ [](log.kind = "new" => (current_wave = 1 /\ Len(asteroids) = 50))
    /\ [][WaveStep]_vars

\* the spawn of wave 2 with 55 asteroids
C10_Witness ==
    /\ WaveSpawned
    /\ current_wave = 2
    /\ Len(asteroids) = 55

----------------------------------------------------------------------------
\* Properties of the wave countdown.

\* a cleared wave, the ticker running for as long as the server runs
SpecCountdown == InitWave /\ [][Next]_vars /\ WF_clock(TickTaken)

CountdownPending == wave_countdown # None

\* a countdown is pending exactly when no asteroid is left
PendingIffEmpty == CountdownPending <=> asteroids = <<>>

\* one step seen from the countdown: it starts, with the deadline 3 s after the
\* tick's clock reading, in the tick that empties the asteroid list; while it
\* is pending, handler steps and ticks that run before the deadline leave the
\* deadline and the empty list alone, and a tick that runs at or after the
\* deadline spawns the wave and clears it
CountdownStep ==
    /\ (asteroids # <<>> /\ asteroids' = <<>>) =>
            /\ log'.kind = "tick"
            /\ wave_countdown' = Some(log'.now + WAVE_COUNTDOWN_SECS)
    /\ (CountdownPending /\ log'.kind # "tick") => UNCHANGED <<wave_countdown, asteroids>>
    /\ (CountdownPending /\ log'.kind = "tick" /\ log'.now < Get(wave_countdown)) =>
            /\ UNCHANGED <<wave_countdown, asteroids, current_wave>>
            /\ log'.wave_spawned = 0
    /\ (CountdownPending /\ log'.kind = "tick" /\ log'.now >= Get(wave_countdown)) =>
            /\ log'.wave_spawned > 0
            /\ asteroids' # <<>>
            /\ wave_countdown' = None
    /\ (~CountdownPending /\ wave_countdown' # None) => asteroids' = <<>>

\* the next tick reaches the deadline of the pending countdown
WavePending ==
    /\ CountdownPending
    /\ budget > 0
    /\ clock + TickMs >= Get(wave_countdown)

\* C11: the countdown starts in the tick in which the asteroid list becomes
\* empty, with the deadline 3 s after that tick's clock reading; a countdown is
\* pending exactly while the list is empty; while it is pending its deadline is
\* neither changed nor cleared; the wave is spawned in the first tick that runs
\* at or after the deadline and in no earlier tick; and a countdown whose
\* deadline the ticker reaches is followed by a new wave.
C11_Countdown ==
    /\ []PendingIffEmpty
    /\ [][CountdownStep]_vars
    /\ (WavePending ~> asteroids # <<>>)

\* the last asteroid is shot, the countdown starts in that tick, and the wave
\* is spawned by the tick that runs exactly 3 s later
C11_Witness ==
    /\ IsTick
    /\ log.wave_spawned > 0
    /\ current_wave = 12
    /\ log.now = T0 + TickMs + WAVE_COUNTDOWN_SECS

----------------------------------------------------------------------------
\* Properties of the connection handlers.

\* the step just taken is the first one of a behaviour from the server's start
FirstStepOfNew == budget = StartSteps - 1 /\ clock = 0

\* C12: the first client that connects to a freshly started server is sent
\* Welcome with id 1 and tick rate 20.
C12_FirstWelcome ==
    (FirstStepOfNew /\ log.kind = "connect") =>
        /\ log.sent[1] = Send({1}, [type |-> "Welcome", id |-> 1, tick_hz |-> 20])
        /\ 1 \in clients

----------------------------------------------------------------------------
\* Properties of the bullet-player test.

\* the bullets that overlap player id at the bullet-player test of the last
\* tick and are not its own
BulletsOn(id) ==
    {k \in 1..Len(log.pvp.bullets) :
        /\ log.pvp.bullets[k].state.owner_id # id
        /\ Overlap(log.pvp.bullets[k].state.pos, log.pvp.players[id].pos,
                   BULLET_RADIUS + PLAYER_RADIUS)}

\* alive and unprotected at the bullet-player test of the last tick
Exposed(id) ==
    /\ log.pvp.players[id].alive
    /\ ~(id \in DOMAIN log.pvp.runtime /\ is_invincible(log.pvp.runtime[id], log.tnow))

StreakBonus(streak) ==
    IF streak % KILL_STREAK_BONUS_INTERVAL = 0 THEN KILL_STREAK_BONUS_POINTS ELSE 0

\* the shooter has one kill more than at the test, and the points for it
Credited(shooter) ==
    LET streak == log.pvp.runtime[shooter].kill_streak + 1
    IN  /\ runtime[shooter].kill_streak = streak
        /\ players[shooter].kill_streak = streak
        /\ players[shooter].score =
                log.pvp.players[shooter].score + PVP_KILL_POINTS + StreakBonus(streak)

\* C13: when a bullet overlaps a live, unprotected player other than its owner
\* at the bullet-player test of a tick, then at the end of the tick the target
\* is dead with a respawn time above 0, the bullet is gone, and the shooter has
\* a kill streak higher by one and a score higher by 200, plus 100 exactly when
\* the new kill streak is a multiple of 3; no player is killed by its own bullet.
C13_BulletKill ==
    IsTick =>
        /\ \A id \in DOMAIN log.pvp.players : \A k \in BulletsOn(id) :
            Exposed(id) =>
                LET shooter == log.pvp.bullets[k].state.owner_id
                IN  /\ ~players[id].alive
                    /\ \E t \in players[id].respawn_timer : t > 0
                    /\ \A i \in 1..Len(bullets) :
                            bullets[i].state.id # log.pvp.bullets[k].state.id
                    /\ (shooter \in DOMAIN log.pvp.runtime
                            /\ shooter \in DOMAIN log.pvp.players) => Credited(shooter)
        /\ \A k \in 1..Len(log.deaths) :
            log.deaths[k].cause = "bullet" => log.deaths[k].shooter # log.deaths[k].victim

----------------------------------------------------------------------------
\* Properties of the bullets' flight.

ShotsSteps == 3

\* the distances of player 51 from the right edge in Shots, in steps: a bullet
\* fired along heading 0 moves 150 steps in the tick that spawns it
EdgeGaps == {149, 150, 151, 300}

\* a Bullet of player 51 with the time to live of ttl more ticks
Shot(id, pos, vel, ttl) ==
    [state |-> [id |-> id, owner_id |-> 51, pos |-> pos, vel |-> vel], ttl |-> ttl]

\* Player 51 alone, far from every asteroid, gap steps left of the right edge
\* with heading 0 and fire held.  Its bullets in flight: 901 and 902 are
\* removed for their age by the next tick and by the one after it, 903 leaves
\* through the top, 904 comes to x = 0, 905 to y = WORLD_HEIGHT.
Shots(gap) ==
    LET rt == MidRuntime(FireInput)
        s == MidState(
            51 :> MidPlayer(51, "A", Vec2(WORLD_WIDTH - gap, 60 * Scale),
                            Vec2(0, 0), 0, 0, rt),
            51 :> rt, spawn_asteroids(ASTEROID_COUNT, 1, 1), 1, None)
    IN  [s EXCEPT !.bullets = <<
            Shot(901, Vec2(50 * Scale, 60 * Scale), Vec2(0, -BULLET_SPEED * Scale), 1),
            Shot(902, Vec2(50 * Scale, 60 * Scale), Vec2(0, -BULLET_SPEED * Scale), 2),
            Shot(903, Vec2(50 * Scale, Scale), Vec2(0, -BULLET_SPEED * Scale), 40),
            Shot(904, Vec2(150, 70 * Scale), Vec2(-BULLET_SPEED * Scale, 0), 40),
            Shot(905, Vec2(20 * Scale, WORLD_HEIGHT - 150), Vec2(0, BULLET_SPEED * Scale), 40)>>]

InitShots == Mid({Shots(gap) : gap \in EdgeGaps}, ShotsSteps)

SpecShots == InitShots /\ [][Next]_vars

\* the bullets of the State message of the last tick
StateBullets == IF IsTick THEN log.sent[1].msg.bullets ELSE <<>>

InClosedWorld(pos) ==
    pos.x >= 0 /\ pos.x <= WORLD_WIDTH /\ pos.y >= 0 /\ pos.y <= WORLD_HEIGHT

\* the ticks a bullet has been through
Age(b) == BULLET_TTL - b.ttl

MaxBulletTicks == 50

\* after its move of one tick
Flown(b) ==
    [b EXCEPT !.ttl = @ - 1, !.state.pos = VAdd(@, ScaleDt(b.state.vel))]

\* the bullets of the State message are the bullets kept, in the closed world
\* rectangle and at most 50 ticks old
BulletsKept ==
    IsTick =>
        /\ StateBullets = [i \in 1..Len(bullets) |-> bullets[i].state]
        /\ \A i \in 1..Len(bullets) :
            InClosedWorld(bullets[i].state.pos) /\ Age(bullets[i]) <= MaxBulletTicks

\* a tick moves every bullet it keeps along its velocity, unwrapped, and keeps
\* none that is then outside the closed rectangle or has no time to live
FlightStep ==
    log'.kind = "tick" =>
        \A j \in 1..Len(bullets) :
            /\ \A i \in 1..Len(bullets') :
                bullets'[i].state.id = bullets[j].state.id =>
                    bullets'[i] = Flown(bullets[j])
            /\ (~InClosedWorld(Flown(bullets[j]).state.pos) \/ Flown(bullets[j]).ttl <= 0) =>
                \A i \in 1..Len(bullets') : bullets'[i].state.id # bullets[j].state.id

\* The flight of the bullets as the code has it: bullets are never wrapped; a bullet that after its
\* move is outside the closed rectangle 0 <= x <= width, 0 <= y <= height, or
\* has no time to live left, is removed in that tick, so that no State message
\* holds a bullet outside the closed rectangle or one older than 50 ticks.
BulletFlight == []BulletsKept /\ [][FlightStep]_vars

\* a State message with a bullet on the right edge, after the bullet 901 was
\* removed for its age and the bullet 903 for leaving through the top
BulletOnEdge ==
    /\ IsTick
    /\ \E i \in 1..Len(StateBullets) : StateBullets[i].pos.x = WORLD_WIDTH
    /\ \A i \in 1..Len(StateBullets) : StateBullets[i].id \notin {901, 903}
    /\ \E i \in 1..Len(StateBullets) : StateBullets[i].id = 902

\* C14: a bullet that after its move is outside the rectangle 0 <= x < width,
\* 0 <= y < height is removed in that tick, so that no State message holds a
\* bullet outside that rectangle.
C14_BulletsInWorld ==
    \A i \in 1..Len(StateBullets) :
        /\ StateBullets[i].pos.x >= 0 /\ StateBullets[i].pos.x < WORLD_WIDTH
        /\ StateBullets[i].pos.y >= 0 /\ StateBullets[i].pos.y < WORLD_HEIGHT

----------------------------------------------------------------------------
\* Properties of the end of a connection.

\* the ids a message of the last step was sent to, and the ids of the players
\* in its State message
Targets == UNION {log.sent[k].to : k \in 1..Len(log.sent)}

StatePlayers ==
    UNION {DOMAIN log.sent[k].msg.players :
            k \in {j \in 1..Len(log.sent) : log.sent[j].msg.type = "State"}}

\* C17: once the read loop of a client has ended, by the end of the stream or
\* by a read error, the client has no registry entry, no runtime record and no
\* player record, no State message contains its player and no message is sent
\* to it.
C17_ReadLoopEnd ==
    /\ clients \subseteq readers
    /\ DOMAIN runtime \subseteq readers
    /\ DOMAIN players \subseteq readers
    /\ Targets \subseteq readers
    /\ StatePlayers \subseteq readers

----------------------------------------------------------------------------
\* Properties of the lines a connection reads.

\* ServerState
world == <<next_id, players, runtime, bullets, asteroids, clients, power_ups,
           current_wave, wave_countdown>>

\* C18: a line that does not decode as a ClientMsg is dropped: the step leaves
\* the world state and the client registry as they were, sends nothing, and
\* leaves the connection in its read loop.
C18_BadLineDropped ==
    [][log'.kind = "bad_line" =>
        /\ UNCHANGED world
        /\ log'.sent = <<>>
        /\ readers' = readers
        /\ log'.who \in readers']_vars

\* an undecodable line from a client that has a player in the world, with
\* steps left for its later lines
C18_Witness ==
    /\ log.kind = "bad_line"
    /\ log.who \in DOMAIN players
    /\ log.who \in readers
    /\ MayHandle

\* C19: an Input message from a connected client without a runtime record
\* changes nothing and sends nothing; the Join that creates a player gives it
\* the neutral input, whatever the client sent before.
C19_InputBeforeJoin ==
    [][/\ (log'.kind = "input" /\ log'.who \notin DOMAIN runtime) =>
            /\ UNCHANGED world
            /\ readers' = readers
            /\ log'.sent = <<>>
       /\ (log'.kind = "join" /\ log'.who \notin DOMAIN players) =>
            /\ log'.who \in DOMAIN players' /\ log'.who \in DOMAIN runtime'
            /\ runtime'[log'.who].input = PlayerInputDefault]_vars

\* an Input message from a connected client that has not joined, with steps
\* left for its Join
C19_Witness ==
    /\ log.kind = "input"
    /\ log.who \in readers
    /\ log.who \notin DOMAIN runtime /\ log.who \notin DOMAIN players
    /\ MayHandle

----------------------------------------------------------------------------
\* Properties of the bullets of a client that is gone.

OrphanSteps == 2

\* Player 51 far from everything with three bullets in flight: 911 is about to
\* hit asteroid 1, 912 to reach player 52, 913 flies on.  Player 52 is idle,
\* unprotected or under a shield for another second, with a score, a combo and
\* a kill streak.
Orphans(l, prot) ==
    LET rt1 == [MidRuntime(PlayerInputDefault) EXCEPT
                    !.combo = 2, !.kill_streak = 2, !.last_kill_time = Some(T0 - 100)]
        rt2 == [MidRuntime(PlayerInputDefault) EXCEPT
                    !.combo = 3, !.kill_streak = 1, !.last_kill_time = Some(T0 - 100),
                    !.shield_until = IF prot = "shield" THEN Some(T0 + 1000) ELSE None]
        s == MidState(
            (51 :> MidPlayer(51, "A", Vec2(100 * Scale, 60 * Scale), Vec2(0, 0), 0, 300, rt1))
                @@ (52 :> MidPlayer(52, "B", Vec2(50 * Scale, 60 * Scale), Vec2(0, 0), 0,
                                    117, rt2)),
            (51 :> rt1) @@ (52 :> rt2),
            spawn_asteroids(ASTEROID_COUNT, 1, l), 1, None)
    IN  [s EXCEPT !.bullets = <<
            Shot(911, Vec2(9 * Scale, 4 * Scale), Vec2(BULLET_SPEED * Scale, 0), 40),
            Shot(912, Vec2(50 * Scale - 150, 60 * Scale), Vec2(BULLET_SPEED * Scale, 0), 40),
            Shot(913, Vec2(100 * Scale, 70 * Scale), Vec2(BULLET_SPEED * Scale, 0), 40)>>]

InitOrphans ==
    Mid({Orphans(l, prot) : l \in Layouts, prot \in {"none", "shield"}}, OrphanSteps)

SpecOrphans == InitOrphans /\ [][Next]_vars

\* the bullet b of the bullet-player test of the last tick has no owner left
Orphan(b) == b.state.owner_id \notin DOMAIN log.pvp.players

BulletGone(id) == \A i \in 1..Len(bullets) : bullets[i].state.id # id

\* the hits of ownerless bullets in the last tick: the asteroid is destroyed
\* and the bullet removed without credit; a live unprotected player under such
\* a bullet is killed and the bullet removed
OrphanHits ==
    IsTick =>
        /\ \A k \in 1..Len(log.kills) :
            log.kills[k].owner \notin DOMAIN players =>
                /\ ~log.kills[k].credited
                /\ BulletGone(log.kills[k].bullet)
                /\ \A i \in 1..Len(asteroids) : asteroids[i].id # log.kills[k].asteroid
        /\ \A k \in 1..Len(log.pvp.bullets) :
            LET b == log.pvp.bullets[k]
                under == {id \in DOMAIN log.pvp.players : Exposed(id) /\ k \in BulletsOn(id)}
            IN  (Orphan(b) /\ under # {}) =>
                    /\ BulletGone(b.state.id)
                    /\ \E id \in under :
                        /\ ~players[id].alive
                        /\ \E j \in 1..Len(log.deaths) :
                            /\ log.deaths[j].victim = id
                            /\ log.deaths[j].shooter = b.state.owner_id
        /\ Len(log.sent) = 1

\* the player p scored no hit in the tick just taken
NoHit(p) ==
    /\ \A k \in 1..Len(log'.kills) : log'.kills[k].owner # p
    /\ \A k \in 1..Len(log'.deaths) : log'.deaths[k].shooter # p

\* bullets stay in the world when their owner goes; a tick moves an ownerless
\* bullet on or removes it because it is outside, out of time or has hit; and
\* a tick raises no score, combo or kill streak of a player that scored no hit
OrphanStep ==
    /\ log'.kind # "tick" => bullets' = bullets
    /\ log'.kind = "tick" =>
        /\ \A j \in 1..Len(bullets) :
            bullets[j].state.owner_id \notin DOMAIN players =>
                \/ \E i \in 1..Len(bullets') : bullets'[i] = Flown(bullets[j])
                \/ ~BulletInside(Flown(bullets[j]))
                \/ \E k \in 1..Len(log'.kills) : log'.kills[k].bullet = bullets[j].state.id
                \/ \E k \in 1..Len(log'.deaths) :
                        /\ log'.deaths[k].cause = "bullet"
                        /\ log'.deaths[k].shooter = bullets[j].state.owner_id
        /\ \A p \in DOMAIN players :
            NoHit(p) =>
                /\ players'[p].score <= players[p].score
                /\ players'[p].combo <= players[p].combo
                /\ players'[p].kill_streak <= players[p].kill_streak
                /\ runtime'[p].combo <= runtime[p].combo
                /\ runtime'[p].kill_streak <= runtime[p].kill_streak

\* C20: a bullet whose owner has disconnected stays in the world until it
\* expires, leaves the rectangle or hits something; when it hits an asteroid or
\* a player the target is destroyed or killed and the bullet removed, nobody's
\* score, combo or kill streak is raised for it, and the tick ends with its
\* State message.
C20_OrphanBullets == []OrphanHits /\ [][OrphanStep]_vars

\* the tick after player 51 left: its bullet 911 destroyed an asteroid, its
\* bullet 912 killed player 52, and its bullet 913 is still in flight
C20_Witness ==
    /\ IsTick
    /\ 51 \notin DOMAIN players /\ 51 \notin clients
    /\ \E k \in 1..Len(log.kills) : log.kills[k].bullet = 911 /\ ~log.kills[k].credited
    /\ \E k \in 1..Len(log.deaths) : log.deaths[k].victim = 52 /\ log.deaths[k].shooter = 51
    /\ ~players[52].alive
    /\ BulletGone(911) /\ BulletGone(912) /\ ~BulletGone(913)

----------------------------------------------------------------------------
\* The functions of the toroidal world, called on their own.

MaxWraps == 2

\* coordinates on and next to the multiples of extent, up to MaxWraps extents
\* on either side of 0, and the middles between them
Coords(extent) ==
    {k * extent + e : k \in -MaxWraps..MaxWraps,
                      e \in {-1, 0, 1, extent \div 2, extent \div 2 + 1}}

\* the extents shortest_delta is called with, and two more
Extents == {WORLD_WIDTH, WORLD_HEIGHT, 1, 7}

\* wrap_position(p), and wrap_position of its result
CallWrapPosition ==
    /\ budget > 0
    /\ \E x \in Coords(WORLD_WIDTH), y \in Coords(WORLD_HEIGHT) :
        /\ log' = [kind |-> "wrap_position", p |-> Vec2(x, y),
                   result |-> wrap_position(Vec2(x, y)),
                   again |-> wrap_position(wrap_position(Vec2(x, y)))]
        /\ budget' = budget - 1
        /\ UNCHANGED <<clock, lag, next_id, players, runtime, bullets, asteroids,
                       clients, readers, closed, heard, lock, pc, power_ups, current_wave,
                       wave_countdown>>

\* shortest_delta(a, b, wrap)
CallShortestDelta ==
    /\ budget > 0
    /\ \E wrap \in Extents : \E a \in Coords(wrap), b \in Coords(wrap) :
        /\ log' = [kind |-> "shortest_delta", a |-> a, b |-> b, wrap |-> wrap,
                   result |-> shortest_delta(a, b, wrap)]
        /\ budget' = budget - 1
        /\ UNCHANGED <<clock, lag, next_id, players, runtime, bullets, asteroids,
                       clients, readers, closed, heard, lock, pc, power_ups, current_wave,
                       wave_countdown>>

CallSteps == 1

InitCalls == New(CallSteps)

SpecCalls == InitCalls /\ [][CallWrapPosition \/ CallShortestDelta]_vars

Abs(n) == IF n < 0 THEN -n ELSE n

----------------------------------------------------------------------------
\* Properties of the State message.

\* the State message of the last tick
StateSent == log.sent[1].msg

\* the player record ps shows the runtime record rt as it is at the time t: its
\* combo, its kill streak, whether a respawn is pending and which effects run
ShowsRuntime(ps, rt, t) ==
    /\ ps.combo = rt.combo
    /\ ps.kill_streak = rt.kill_streak
    /\ (ps.respawn_timer # None) = (rt.respawn_at # None)
    /\ (ps.effects.shield_remaining # None) = Active(rt.shield_until, t)
    /\ (ps.effects.rapid_fire_remaining # None) = Active(rt.rapid_fire_until, t)
    /\ (ps.effects.triple_shot_remaining # None) = Active(rt.triple_shot_until, t)
    /\ (ps.effects.speed_boost_remaining # None) = Active(rt.speed_boost_until, t)
    /\ (ps.effects.invincible_remaining # None) = Active(rt.invincible_until, t)

\* the lists and the wave info of the State message are those of the state
ShowsWorld(m) ==
    /\ m.type = "State"
    /\ m.asteroids = asteroids
    /\ m.bullets = [i \in 1..Len(bullets) |-> bullets[i].state]
    /\ m.power_ups = [i \in 1..Len(power_ups) |-> power_ups[i].state]
    /\ m.wave.wave_number = current_wave
    /\ m.wave.asteroids_remaining = Len(asteroids)
    /\ (m.wave.countdown # None) = (wave_countdown # None)
    /\ DOMAIN m.players = DOMAIN players
    /\ \A id \in DOMAIN players :
        /\ m.players[id].alive = players[id].alive
        /\ m.players[id].score = players[id].score

\* C21: the State message of a tick shows the world as it is at the end of that
\* tick: the asteroids, bullets, power-ups and wave info, and for every player
\* its alive flag, score, combo, kill streak, pending respawn and running effects.
C21_StateIsPostTick ==
    IsTick =>
        /\ ShowsWorld(StateSent)
        /\ \A id \in DOMAIN players :
            ShowsRuntime(StateSent.players[id], runtime[id], log.tnow)

----------------------------------------------------------------------------
\* Delivery to clients whose write task has ended.

LossySteps == 4

NextLossy == Next \/ WriteErrorStep

\* the server from its start, with write tasks that fail, the ticker running
\* for as long as the server runs
SpecLossy == New(LossySteps) /\ [][NextLossy]_vars /\ WF_clock(TickTaken)

\* every broadcast reaches every registered client whose queue is open, whatever
\* queues are closed; a closed queue gets nothing, in that broadcast or later;
\* a tick sends one message, the State of that tick
Delivered ==
    /\ \A k \in 1..Len(log.sent) :
        /\ log.sent[k].to \cap closed = {}
        /\ log.sent[k].failed \subseteq closed
        /\ log.kind \in {"tick", "join", "chat", "disconnect"} =>
                log.sent[k].to = clients \ closed
    /\ IsTick => Len(log.sent) = 1 /\ ShowsWorld(StateSent)

\* the State of the last tick failed for some client
FailedTick == IsTick /\ log.sent[1].failed # {}

\* C22: delivery is fire-and-forget: every broadcast reaches every registered
\* client whose queue is open, whatever queues are closed; a tick sends one
\* message, the State of that tick, so a message that failed is not sent again;
\* and a tick whose State failed for a client is followed by the next tick.
C22_FireAndForget ==
    /\ []Delivered
    /\ \A n \in 1..LossySteps :
        (FailedTick /\ budget = n) ~> (IsTick /\ budget < n)

\* a tick whose State fails for one client and reaches another, with a tick
\* left to take
C22_Witness ==
    /\ FailedTick
    /\ log.sent[1].to # {}
    /\ budget > 0

----------------------------------------------------------------------------
\* The state mutex: the tick loop and the handlers step by step.  Each takes
\* the lock, works on the state, releases the lock and then sends; a process
\* that is not in pc waits, the ticker for its interval and a handler for the
\* next line of its stream.

\* the process of the tick loop; a handler is known by the id of its client,
\* and one that has no id yet by a negative number
Ticker == 0

Accepting == {0 - n : n \in 1..MaxClients}

\* processes in the middle of an operation at the same time
MaxBusy == 2

\* the operations that have still to do their step on the state, each of
\* which takes one step of the budget
Pending == {p \in DOMAIN pc : pc[p].at \in {"lock", "locked"}}

\* the budget holds a step for every pending operation and for the tick that
\* ends the behaviour when one more step is taken
Spare == Pending = {} \/ budget > Cardinality(Pending) + 1

MayBegin == Cardinality(DOMAIN pc) < MaxBusy /\ Spare

At(p, at) == p \in DOMAIN pc /\ pc[p].at = at

Goto(p, at) == [pc EXCEPT ![p].at = at]

Begin(p, op) == (p :> [at |-> "lock", op |-> op, out |-> <<>>]) @@ pc

Done(p) == [q \in DOMAIN pc \ {p} |-> pc[q]]

\* a step of the process who that leaves the state, the registry and the
\* channels alone
Local(kind, who) ==
    /\ log' = [EmptyLog EXCEPT !.kind = kind, !.who = who, !.now = clock, !.tnow = clock]
    /\ UNCHANGED <<clock, lag, next_id, players, runtime, bullets, asteroids, clients,
                   readers, closed, heard, power_ups, current_wave, wave_countdown, budget>>

\* ticker.tick().await returns
Fire ==
    /\ budget > 0
    /\ MayBegin
    /\ Ticker \notin DOMAIN pc
    /\ pc' = Begin(Ticker, "tick")
    /\ lock' = lock
    /\ Local("fire", Ticker)

\* listener.accept() returns and handle_client is spawned
Accept ==
    /\ MayHandle
    /\ MayBegin
    /\ \E p \in Accepting :
        /\ p \notin DOMAIN pc
        /\ Cardinality(clients) + Cardinality(DOMAIN pc \cap Accepting) < MaxClients
        /\ pc' = Begin(p, "connect")
        /\ lock' = lock
        /\ Local("accept", p)

\* the lines that make a handler take the lock
LockingOps == {"join", "input", "chat", "eof"}

\* reader.next_line() of the client id returns a line, or the end of the stream
NextLine ==
    /\ MayHandle
    /\ MayBegin
    /\ \E id \in readers \ DOMAIN pc, op \in LockingOps :
        /\ pc' = Begin(id, op)
        /\ lock' = lock
        /\ Local("next_line", id)

\* state.lock().await returns: the lock is free and the process takes it
Acquire ==
    \E p \in DOMAIN pc :
        /\ pc[p].at \in {"lock", "lock_all"}
        /\ lock = None
        /\ lock' = Some(p)
        /\ pc' = Goto(p, IF pc[p].at = "lock" THEN "locked" ELSE "locked_all")
        /\ Local("acquire", p)

\* the messages the step has built are kept for the send
Built(p) == [pc EXCEPT ![p].at = "unlock", ![p].out = log'.sent]

\* tick() and the copy of the snapshot and of the client list
TickLocked ==
    /\ At(Ticker, "locked")
    /\ Tick
    /\ pc' = Built(Ticker)
    /\ lock' = lock

\* the id and the registry entry of a new connection
ConnectLocked ==
    \E p \in Accepting :
        /\ At(p, "locked")
        /\ Connect
        /\ pc' = (next_id :> [at |-> "unlock", op |-> "connect", out |-> log'.sent])
                    @@ Done(p)
        /\ lock' = IF lock = Some(p) THEN Some(next_id) ELSE lock

\* JoinLocked calling broadcast_all before the guard of its lock is dropped
JoinLocked_broadcasts_inside ==
    \E id \in DOMAIN pc, name \in Names :
        /\ At(id, "locked") /\ pc[id].op = "join"
        /\ Join(id, name)
        /\ pc' = [pc EXCEPT ![id].at = "lock_all", ![id].out = log'.sent]
        /\ lock' = lock

JoinLocked ==
    \E id \in DOMAIN pc, name \in Names :
        /\ At(id, "locked") /\ pc[id].op = "join"
        /\ Join(id, name)
        /\ pc' = Built(id)
        /\ lock' = lock

InputLocked ==
    \E id \in DOMAIN pc, input \in Inputs :
        /\ At(id, "locked") /\ pc[id].op = "input"
        /\ Input(id, input)
        /\ pc' = Built(id)
        /\ lock' = lock

\* the name of the sender of a chat line
ChatLocked ==
    \E id \in DOMAIN pc, text \in Texts :
        /\ At(id, "locked") /\ pc[id].op = "chat"
        /\ Chat(id, text)
        /\ pc' = Built(id)
        /\ lock' = lock

\* disconnect(id, state), the removals
DisconnectLocked ==
    \E id \in DOMAIN pc :
        /\ At(id, "locked") /\ pc[id].op = "eof"
        /\ Disconnect(id)
        /\ pc' = Built(id)
        /\ lock' = lock

\* where a process goes when the guard of its lock is dropped: the tick loop and
\* a new handler send what they have, a handler with a message for everybody
\* calls broadcast_all, any other is done
AfterUnlock(p) ==
    CASE pc[p].at = "unlock_all" -> "send"
      [] pc[p].op \in {"tick", "connect"} -> "send"
      [] pc[p].op \in {"join", "chat"} -> "lock_all"
      [] pc[p].op = "eof" /\ pc[p].out # <<>> -> "lock_all"
      [] OTHER -> "done"

\* Release keeping the lock over the send of the tick loop
Release_after_send ==
    \E p \in DOMAIN pc :
        /\ pc[p].at \in {"unlock", "unlock_all"}
        /\ lock' = IF p = Ticker THEN lock ELSE None
        /\ pc' = IF AfterUnlock(p) = "done" THEN Done(p) ELSE Goto(p, AfterUnlock(p))
        /\ Local("release", p)

\* the MutexGuard of the process goes out of scope
Release ==
    \E p \in DOMAIN pc :
        /\ pc[p].at \in {"unlock", "unlock_all"}
        /\ lock' = None
        /\ pc' = IF AfterUnlock(p) = "done" THEN Done(p) ELSE Goto(p, AfterUnlock(p))
        /\ Local("release", p)

\* broadcast_all under the lock: the copy of the client list
CopyClients ==
    \E p \in DOMAIN pc :
        /\ At(p, "locked_all")
        /\ pc' = [pc EXCEPT ![p].at = "unlock_all",
                            ![p].out = [k \in 1..Len(pc[p].out) |->
                                            Send(clients, pc[p].out[k].msg)]]
        /\ lock' = lock
        /\ Local("copy_clients", p)

\* broadcast, or tx.send on the handler's own channel
SendOut ==
    \E p \in DOMAIN pc :
        /\ At(p, "send")
        /\ pc' = Done(p)
        /\ lock' = lock
        /\ log' = [EmptyLog EXCEPT !.kind = "send", !.who = p, !.now = clock,
                                   !.tnow = clock, !.sent = pc[p].out]
        /\ UNCHANGED <<clock, lag, next_id, players, runtime, bullets, asteroids, clients,
                       readers, closed, heard, power_ups, current_wave, wave_countdown, budget>>

\* the lines a handler answers without the lock, and the read error
Unlocked ==
    \E id \in readers \ DOMAIN pc :
        /\ \/ \E nonce \in Nonces : Ping(id, nonce)
           \/ BadLine(id)
           \/ ReadError(id)
        /\ Spare
        /\ Atomic

LockSteps == 2

NextLock ==
    \/ Fire \/ Accept \/ NextLine \/ Acquire \/ Release \/ CopyClients \/ SendOut
    \/ TickLocked \/ ConnectLocked \/ JoinLocked \/ InputLocked \/ ChatLocked
    \/ DisconnectLocked \/ Unlocked

\* two idle players far from each other and from every asteroid
Lobby == [Orphans(1, "none") EXCEPT !.bullets = <<>>]

\* two players in a game, the tick loop and the handlers step by step
InitLock == Mid({Lobby}, LockSteps)

SpecLock == InitLock /\ [][NextLock]_vars

\* the steps that read or write the state
Accesses == {"tick", "connect", "join", "input", "chat", "disconnect", "copy_clients"}

\* the steps that send to a client
Sends == {"send", "ping"}

\* the processes that wait for the ticker or for their stream
Waiting == ({Ticker} \cup readers) \ DOMAIN pc

\* C23: every step that reads or writes the state is taken by the process that
\* holds the lock, and holds it through the step; no process holds the lock in a
\* step in which it sends to a client, nor while it waits for its stream or for
\* the ticker.
C23_LockDiscipline ==
    [][/\ log'.kind \in Accesses => lock # None /\ lock' = Some(log'.who)
       /\ log'.kind \in Sends => lock # Some(log'.who) /\ lock' # Some(log'.who)
       /\ \A p \in Waiting' : lock' # Some(p)]_vars

\* the tick loop sends its State while a handler holds the lock
C23_Witness ==
    /\ log.kind = "send"
    /\ log.who = Ticker
    /\ log.sent # <<>>
    /\ lock # None

----------------------------------------------------------------------------
\* Power-ups in the world.

PickupSteps == 2

PowerUp(id, pos, kind, expires_at) ==
    [state |-> [id |-> id, pos |-> pos, kind |-> kind], expires_at |-> expires_at]

\* Player 51 idle with a shield and a speed boost running, far from every
\* asteroid, on a Shield power-up and on a RapidFire power-up that expires at
\* `edge`; player 52 dead, on a TripleShot power-up; a SpeedBoost power-up
\* that nobody touches.
Pickups(edge) ==
    LET here == Vec2(100 * Scale, 60 * Scale)
        there == Vec2(50 * Scale, 60 * Scale)
        rt1 == [MidRuntime(PlayerInputDefault) EXCEPT
                    !.shield_until = Some(T0 + 3000),
                    !.speed_boost_until = Some(T0 + 2000)]
        rt2 == [MidRuntime(PlayerInputDefault) EXCEPT !.respawn_at = Some(T0 + 2000)]
        s == MidState(
            (51 :> MidPlayer(51, "A", here, Vec2(0, 0), 0, 300, rt1))
                @@ (52 :> MidPlayer(52, "B", there, Vec2(0, 0), 0, 117, rt2)),
            (51 :> rt1) @@ (52 :> rt2),
            spawn_asteroids(ASTEROID_COUNT, 1, 1), 1, None)
    IN  [s EXCEPT !.power_ups = <<
            PowerUp(801, here, "Shield", T0 + 10000),
            PowerUp(802, Vec2(101 * Scale, 60 * Scale), "RapidFire", edge),
            PowerUp(803, there, "TripleShot", T0 + 10000),
            PowerUp(804, Vec2(150 * Scale, 60 * Scale), "SpeedBoost", T0 + 10000)>>]

\* the RapidFire power-up expires at the next tick, 1 ms after it, or much later
InitPickups ==
    Mid({Pickups(edge) : edge \in {T0 + TickMs, T0 + TickMs + 1, T0 + 10000}}, PickupSteps)

SpecPickups == InitPickups /\ [][Next]_vars

\* the expiry of the effect of the kind `kind` in the runtime record rt
Expiry(rt, kind) ==
    CASE kind = "Shield" -> rt.shield_until
      [] kind = "RapidFire" -> rt.rapid_fire_until
      [] kind = "TripleShot" -> rt.triple_shot_until
      [] OTHER -> rt.speed_boost_until

InWorld(pus, id) == \E k \in 1..Len(pus) : pus[k].state.id = id

\* the power-ups of the pickup test of the last tick that the player id overlaps
Touched(id) ==
    {k \in 1..Len(log.pickup.power_ups) :
        Overlap(log.pickup.players[id].pos, log.pickup.power_ups[k].state.pos,
                PLAYER_RADIUS + POWERUP_RADIUS)}

\* the pickups of the last tick: a live player gets the expiry "tick time + 8 s"
\* for the kinds it touches and keeps its other expiries, a dead one keeps all;
\* the power-ups touched by a live player are gone
Granted ==
    \A id \in DOMAIN log.pickup.players :
        LET kinds == {log.pickup.power_ups[k].state.kind : k \in Touched(id)}
            live == log.pickup.players[id].alive
        IN  /\ \A kind \in PowerUpKind :
                Expiry(log.pickup.after[id], kind) =
                    IF live /\ kind \in kinds THEN Some(log.now + POWERUP_DURATION_SECS)
                    ELSE Expiry(log.pickup.before[id], kind)
            /\ log.pickup.after[id].invincible_until
                    = log.pickup.before[id].invincible_until
            /\ live => \A k \in Touched(id) :
                            ~InWorld(power_ups, log.pickup.power_ups[k].state.id)

\* no power-up effect has more than 8 s left
AtMostEight ==
    \A id \in DOMAIN runtime, kind \in PowerUpKind :
        \A until \in Expiry(runtime[id], kind) : until - clock <= POWERUP_DURATION_SECS

\* C24: at the pickup test a live player gets, for each kind of unexpired
\* power-up it overlaps, the expiry "that tick's time + 8 s", also when the
\* effect is running, and keeps its other expiries; the power-up is gone at the
\* end of the tick; no effect has more than 8 s left; a power-up that has
\* reached its expiry time is removed before the test and changes no expiry.
C24_Pickup ==
    [][log'.kind = "tick" =>
        /\ Granted'
        /\ AtMostEight'
        /\ \A i \in 1..Len(power_ups) :
            log'.now >= power_ups[i].expires_at =>
                /\ ~InWorld(log'.pickup.power_ups, power_ups[i].state.id)
                /\ ~InWorld(power_ups', power_ups[i].state.id)
        /\ \A id \in DOMAIN runtime \cap DOMAIN log'.pickup.before, kind \in PowerUpKind :
            Expiry(log'.pickup.after[id], kind) # Expiry(runtime[id], kind) =>
                \E i \in 1..Len(log'.pickup.power_ups) :
                    /\ log'.pickup.power_ups[i].state.kind = kind
                    /\ log'.now < log'.pickup.power_ups[i].expires_at]_vars

\* a tick in which player 51 renews its running shield, the RapidFire power-up
\* beside it has run out and grants nothing, and the dead player 52 gets nothing
C24_Witness ==
    /\ IsTick
    /\ 51 \in DOMAIN log.pickup.before
    /\ Active(log.pickup.before[51].shield_until, log.now)
    /\ log.pickup.after[51].shield_until = Some(log.now + POWERUP_DURATION_SECS)
    /\ log.pickup.after[51].rapid_fire_until = None
    /\ ~InWorld(log.pickup.power_ups, 802)
    /\ ~InWorld(power_ups, 801)
    /\ InWorld(power_ups, 803)

----------------------------------------------------------------------------
\* The fire cooldown.

\* nanoseconds on either side of a cooldown
ElapsedSlack == 40

\* the elapsed times around the two cooldowns
Elapsed ==
    {FIRE_COOLDOWN * 1000000 + d : d \in (0 - ElapsedSlack)..ElapsedSlack}
        \cup {RAPID_FIRE_COOLDOWN * 1000000 + d : d \in (0 - ElapsedSlack)..ElapsedSlack}

\* the test "elapsed >= cooldown" of the shooting code
CallCooledDown ==
    /\ budget > 0
    /\ \E ns \in Elapsed, has_rapid \in BOOLEAN :
        /\ log' = [kind |-> "cooled_down", ns |-> ns, has_rapid |-> has_rapid,
                   result |-> CooledDown(ns, has_rapid)]
        /\ budget' = budget - 1
        /\ UNCHANGED <<clock, lag, next_id, players, runtime, bullets, asteroids,
                       clients, readers, closed, heard, lock, pc, power_ups, current_wave,
                       wave_countdown>>

SpecCooldown == InitCalls /\ [][CallCooledDown]_vars

\* C25: a player fires only if at least the cooldown, 0.2 s or 0.08 s under
\* rapid fire, has elapsed since its last fire.
C25_FireCooldown ==
    (log.kind = "cooled_down" /\ log.result) =>
        log.ns >= (IF log.has_rapid THEN RAPID_FIRE_COOLDOWN ELSE FIRE_COOLDOWN) * 1000000

\* the bullets the player id pushed in the last tick
ShotsOf(id) == {k \in 1..Len(log.shots) : log.shots[k].state.owner_id = id}

\* The rest of the fire rule, in whole milliseconds: who fires in a tick is
\* alive, has its fire flag set and has waited for the cooldown in force; it
\* pushes 1 bullet, or 3 under triple shot, each its own and with the full
\* time-to-live, and its last-fire time is the tick's; nobody else pushes a
\* bullet or has its last-fire time changed.
FireEffects ==
    [][log'.kind = "tick" =>
        /\ \A id \in log'.fired :
            /\ id \in DOMAIN players /\ id \in DOMAIN runtime
            /\ players[id].alive \/ id \in log'.respawned
            /\ runtime[id].input.fire
            /\ log'.tnow - runtime[id].last_fire >=
                    IF Active(runtime[id].rapid_fire_until, log'.tnow)
                    THEN RAPID_FIRE_COOLDOWN ELSE FIRE_COOLDOWN
            /\ Cardinality(ShotsOf(id)') =
                    IF Active(runtime[id].triple_shot_until, log'.tnow) THEN 3 ELSE 1
            /\ runtime'[id].last_fire = log'.tnow
        /\ \A k \in 1..Len(log'.shots) :
            /\ log'.shots[k].state.owner_id \in log'.fired
            /\ log'.shots[k].ttl = BULLET_TTL
        /\ \A id \in DOMAIN runtime \ log'.fired :
            runtime'[id].last_fire = runtime[id].last_fire]_vars

\* a triple shot
TripleShot == IsTick /\ \E id \in log.fired : Cardinality(ShotsOf(id)) = 3

----------------------------------------------------------------------------
\* Ids.

AsteroidIds == {asteroids[i].id : i \in 1..Len(asteroids)}

BulletIds == {bullets[i].state.id : i \in 1..Len(bullets)}

PowerUpIds == {power_ups[i].state.id : i \in 1..Len(power_ups)}

\* the ids in use
AllIds == clients \cup DOMAIN players \cup AsteroidIds \cup BulletIds \cup PowerUpIds

\* no two clients, asteroids, bullets and power-ups share an id, and every id in
\* use, and the owner of every bullet, is below the counter
IdsApart ==
    /\ Cardinality(AsteroidIds) = Len(asteroids)
    /\ Cardinality(BulletIds) = Len(bullets)
    /\ Cardinality(PowerUpIds) = Len(power_ups)
    /\ (clients \cup DOMAIN players) \cap (AsteroidIds \cup BulletIds \cup PowerUpIds) = {}
    /\ AsteroidIds \cap (BulletIds \cup PowerUpIds) = {}
    /\ BulletIds \cap PowerUpIds = {}
    /\ \A id \in AllIds : id < next_id
    /\ \A i \in 1..Len(bullets) : bullets[i].state.owner_id < next_id

IdSteps == 3

\* The bullets of player 51 in flight after 51 has left: player 52 alone, fire
\* held, one of the bullets about to reach it.
Departed ==
    LET s == Orphans(1, "none")
    IN  [s EXCEPT !.players = (52 :> s.players[52]),
                  !.runtime = (52 :> [s.runtime[52] EXCEPT !.input = FireInput]),
                  !.clients = {52}]

InitIds == Mid({Departed}, IdSteps)

SpecIds == InitIds /\ [][Next]_vars

\* C26: the counter never decreases; every id that comes into use is taken from
\* the counter, at or above its old value and below its new one, so no id is
\* handed out twice; a new client gets the value of the counter, which is above
\* every id in use and above the owner of every bullet; no two clients,
\* asteroids, bullets and power-ups share an id.
C26_Ids ==
    [][/\ next_id' >= next_id
       /\ IdsApart'
       /\ \A id \in AllIds' \ AllIds : id >= next_id /\ id < next_id'
       /\ log'.kind = "connect" =>
            /\ log'.who = next_id
            /\ next_id' > next_id
            /\ clients' = clients \cup {log'.who}
            /\ \A id \in AllIds : id < log'.who
            /\ \A i \in 1..Len(bullets) : bullets[i].state.owner_id # log'.who]_vars

\* a client connects after a tick has created a bullet, while a bullet of a
\* player that has left is in flight
C26_Witness ==
    /\ log.kind = "connect"
    /\ \E i \in 1..Len(bullets) : bullets[i].state.id >= 1000
    /\ \E i \in 1..Len(bullets) : bullets[i].state.owner_id \notin DOMAIN players

----------------------------------------------------------------------------
\* The input buffer.

\* the last Input received from the client id, the neutral input for none
LastHeard(id) == IF id \in DOMAIN heard THEN heard[id].input ELSE PlayerInputDefault

\* the last Input received from the client id since its player was created
LastSinceJoin(id) ==
    IF id \in DOMAIN heard /\ heard[id].fresh THEN heard[id].input ELSE PlayerInputDefault

\* C27 as stated: each tick drives every live player with the last Input
\* received from its client before the tick, or the neutral input if there is
\* none.
C27_LatestInput ==
    IsTick => \A id \in DOMAIN log.driven : log.driven[id] = LastHeard(id)

\* C27 amended: each tick drives every live player with the last Input received
\* from its client since its player was created, or the neutral input if there
\* is none; no step but the receipt of an Input changes the input a player is
\* driven with.
C27_LatestSinceJoin ==
    [][/\ log'.kind = "tick" =>
            /\ \A id \in DOMAIN log'.driven : log'.driven[id] = LastSinceJoin(id)
            /\ DOMAIN log'.driven =
                    {id \in DOMAIN players : players[id].alive \/ id \in log'.respawned}
       /\ \A id \in DOMAIN runtime \cap DOMAIN runtime' :
            /\ runtime'[id].input = LastSinceJoin(id)'
            /\ log'.kind # "input" => runtime'[id].input = runtime[id].input]_vars

\* a tick drives a player with the Input its client sent after its Join
C27_Witness ==
    /\ IsTick
    /\ \E id \in DOMAIN log.driven :
        /\ log.driven[id] # PlayerInputDefault
        /\ log.driven[id] = LastSinceJoin(id)

\* a tick drives a respawned player with the Input it held when it died
ReusedAfterRespawn ==
    /\ IsTick
    /\ \E id \in log.respawned :
        id \in DOMAIN log.driven /\ log.driven[id] # PlayerInputDefault

----------------------------------------------------------------------------
\* The order of the phases of tick().

MeleeSteps == 2

\* Player 52 two units left of the only asteroid, 900 of the size `size`, at
\* rest, with fire held and heading for it, its shield running out before
\* the next tick.  Player 51 far away, its bullet 911 one tick short of 52.
Melee(size) ==
    LET rt1 == [MidRuntime(PlayerInputDefault) EXCEPT !.kill_streak = 2]
        rt2 == [MidRuntime(FireInput) EXCEPT !.shield_until = Some(T0 + 10)]
        s == MidState(
            (51 :> MidPlayer(51, "A", Vec2(100 * Scale, 60 * Scale), Vec2(0, 0), 0, 300, rt1))
                @@ (52 :> MidPlayer(52, "B", Vec2(10 * Scale, 4 * Scale), Vec2(20, 0), 0,
                                    117, rt2)),
            (51 :> rt1) @@ (52 :> rt2),
            <<[id |-> 900, pos |-> Vec2(12 * Scale, 4 * Scale), vel |-> Vec2(0, 0),
               size |-> size]>>,
            1, None)
    IN  [s EXCEPT !.bullets = <<
            Shot(911, Vec2(7 * Scale - 10, 4 * Scale), Vec2(BULLET_SPEED * Scale, 0), 40)>>]

InitMelee == Mid({Melee(1), Melee(2)}, MeleeSteps)

SpecMelee == InitMelee /\ [][Next]_vars

\* a bullet or an asteroid after "Update bullets" or "Update asteroids"
MovedBullet(b) ==
    [b EXCEPT !.ttl = @ - 1, !.state.pos = VAdd(@, ScaleDt(b.state.vel))]

MovedAsteroid(a) == [a EXCEPT !.pos = wrap_position(VAdd(@, ScaleDt(a.vel)))]

\* the asteroids of the player-asteroid test of the last tick: those the tick
\* left, unless its wave check replaced them
TestedAsteroids == IF log.wave_spawned > 0 THEN <<>> ELSE asteroids

\* the children of the asteroids destroyed in the last tick
ChildIds ==
    {id \in AsteroidIds : \E i \in 1..Len(log.kills) :
        \E c \in 1..Len(log.kills[i].children) : log.kills[i].children[c].id = id}

\* In the step of a tick every collision test read the positions that the
\* tick's position updates left: a kill of an asteroid is an overlap of the
\* moved bullet and the moved asteroid, the pickup, player-asteroid and
\* bullet-player tests saw the players where the tick leaves them, and the
\* bullet-player test saw every older bullet moved once.
MovedFirst ==
    LET loaded == bullets \o log'.shots
    IN  /\ \A i \in 1..Len(log'.kills) :
            \E k \in 1..Len(loaded), j \in 1..Len(asteroids) :
                /\ loaded[k].state.id = log'.kills[i].bullet
                /\ asteroids[j].id = log'.kills[i].asteroid
                /\ Overlap(MovedBullet(loaded[k]).state.pos, MovedAsteroid(asteroids[j]).pos,
                           BULLET_RADIUS + asteroid_radius(asteroids[j].size))
        /\ \A id \in DOMAIN players' :
            /\ log'.pickup.players[id].pos = players'[id].pos
            /\ log'.pvp.players[id].pos = players'[id].pos
            /\ log'.at_test[id].in_asteroid
                    = OverlapsAsteroid(players'[id].pos, TestedAsteroids')
        /\ \A k \in 1..Len(log'.pvp.bullets) :
            \E j \in 1..Len(loaded) : log'.pvp.bullets[k] = MovedBullet(loaded[j])
        /\ \A i \in 1..Len(TestedAsteroids'), j \in 1..Len(asteroids) :
            TestedAsteroids'[i].id = asteroids[j].id
                => TestedAsteroids'[i] = MovedAsteroid(asteroids[j])

\* In the step of a tick each category saw what the categories before it did:
\* the pickup test saw the power-ups that the destroyed asteroids dropped, the
\* player-asteroid test the expiries that the pickups set and (MovedFirst) the
\* children of the splits, the bullet-player test neither a bullet that
\* destroyed an asteroid nor, alive, a player that an asteroid killed, and the
\* wave check the asteroids that were left.
InOrder ==
    /\ \A i \in 1..Len(log'.kills) :
        /\ \A k \in 1..Len(log'.pvp.bullets) :
                log'.pvp.bullets[k].state.id # log'.kills[i].bullet
        /\ \A d \in 1..Len(log'.kills[i].drops) :
            \E k \in 1..Len(log'.pickup.power_ups) :
                log'.pickup.power_ups[k].state.id = log'.kills[i].drops[d]
    /\ \A id \in DOMAIN log'.pickup.after :
        log'.at_test[id].shield_until = log'.pickup.after[id].shield_until
    /\ \A i \in 1..Len(log'.deaths) :
        /\ log'.deaths[i].cause = "asteroid" =>
                ~log'.pvp.players[log'.deaths[i].victim].alive
        /\ log'.deaths[i].cause = "bullet" =>
                \A j \in i..Len(log'.deaths) : log'.deaths[j].cause = "bullet"
    /\ asteroids' = <<>> => wave_countdown' # None

\* a player that picked up a Shield in the tick did not die in it
ShieldCounts ==
    \A id \in DOMAIN log'.picked :
        "Shield" \in log'.picked[id] =>
            /\ players'[id].alive
            /\ \A i \in 1..Len(log'.deaths) : log'.deaths[i].victim # id

\* C28: within a tick every collision test runs on the positions the tick's
\* updates of players, bullets and asteroids left; the categories are resolved
\* in the order bullet-asteroid, player-power-up, player-asteroid,
\* bullet-player, wave check, each seeing what the ones before it did; a player
\* that picks up a Shield in a tick survives that tick's player-asteroid and
\* bullet-player tests.
C28_PhaseOrder ==
    [][log'.kind = "tick" => MovedFirst /\ InOrder /\ ShieldCounts]_vars

\* a tick in which a player is killed by asteroids that are all children of
\* an asteroid split in that tick, and the enemy bullet on it flies on
C28_Witness ==
    /\ IsTick
    /\ \E i \in 1..Len(log.deaths) :
        LET v == log.deaths[i].victim
            over == {j \in 1..Len(asteroids) :
                        Overlap(players[v].pos, asteroids[j].pos,
                                PLAYER_RADIUS + asteroid_radius(asteroids[j].size))}
        IN  /\ log.deaths[i].cause = "asteroid"
            /\ over # {}
            /\ \A j \in over : asteroids[j].id \in ChildIds
            /\ \E k \in 1..Len(bullets) :
                /\ bullets[k].state.owner_id # v
                /\ Overlap(bullets[k].state.pos, players[v].pos,
                           BULLET_RADIUS + PLAYER_RADIUS)

\* a tick in which a player picked up the Shield that an asteroid destroyed in
\* that tick dropped, and survived an asteroid and an enemy bullet on it
ShieldSavedInTick ==
    /\ IsTick
    /\ \E id \in DOMAIN log.picked :
        /\ "Shield" \in log.picked[id]
        /\ \E i \in 1..Len(log.kills) : log.kills[i].drops # <<>>
        /\ log.at_test[id].in_asteroid
        /\ id \in log.under_fire
        /\ players[id].alive

\* a tick that destroyed the last asteroid and started the countdown, a bullet
\* killing a player no asteroid is left to kill
LastAsteroidShot ==
    /\ IsTick
    /\ log.kills # <<>>
    /\ asteroids = <<>>
    /\ wave_countdown = Some(log.now + WAVE_COUNTDOWN_SECS)
    /\ \E i \in 1..Len(log.deaths) : log.deaths[i].cause = "bullet"

----------------------------------------------------------------------------
\* What the collision scans mutate.  The scans of player-asteroid and of
\* bullet-player only push to local vectors (KilledByAsteroid, PvpHits); the
\* scans of bullet-asteroid and of player-power-up write to the ServerState,
\* and log.mutated records what the state of the frame at the end of each of
\* them differs in from the one at its start.

\* C29: in a tick no scan of a collision category mutates a score, a combo, a
\* kill streak, an effect expiry or an entity set; what the scan found is
\* applied after it.
C29_TwoPhase ==
    IsTick => \A category \in DOMAIN log.mutated : log.mutated[category] = {}

\* the scan of player-power-up alone leaves the state as it found it
PickupScanReadsOnly == IsTick => log.mutated["player-power-up"] = {}

\* What holds instead: the scan of bullet-asteroid leaves the bullets, the
\* asteroids and who is alive alone, and the scan of player-power-up all but
\* the runtime records; the removals and the children come after the scan.
DeferredRemovals ==
    IsTick =>
        /\ log.mutated["bullet-asteroid"]
                \subseteq {"score", "combo", "runtime", "power_ups", "next_id"}
        /\ log.mutated["player-power-up"] \subseteq {"runtime"}

\* a tick whose bullet-asteroid scan awarded a kill and dropped a power-up
ScanAwardsAndDrops ==
    IsTick /\ {"score", "combo", "runtime", "power_ups", "next_id"}
                \subseteq log.mutated["bullet-asteroid"]

----------------------------------------------------------------------------
\* Deaths per player and tick.

\* C30: in a tick death is applied to a player at most once and only while it
\* is alive, so that its score takes the penalty once and at most one shooter
\* is credited with one kill for it, however many bullets and asteroids are on
\* it.
C30_KilledOnce ==
    IsTick =>
        \A i \in 1..Len(log.deaths) :
            /\ log.deaths[i].before.p.alive
            /\ \A j \in 1..Len(log.deaths) :
                log.deaths[j].victim = log.deaths[i].victim => j = i

\* What holds of an asteroid and a bullet on the same player: the asteroid
\* kills it, once, and no bullet kills it after that.
AsteroidDeathIsLast ==
    IsTick =>
        \A i \in 1..Len(log.deaths) :
            log.deaths[i].cause = "asteroid" =>
                /\ log.deaths[i].before.p.alive
                /\ \A j \in 1..Len(log.deaths) :
                    log.deaths[j].victim = log.deaths[i].victim => j = i

----------------------------------------------------------------------------
\* Two players on one power-up.

SharedSteps == 2

\* Pickups with player 52 alive beside player 51: both are on the power-up
\* 801, of the kind `kind`, player 51 alone is on the RapidFire power-up 802 (52 is 2.5
\* units left of 51, 3.5 from 802), nobody is on 803 and 804.
Shared(kind) ==
    LET s == Pickups(T0 + 10000)
        rt2 == [MidRuntime(PlayerInputDefault) EXCEPT !.triple_shot_until = Some(T0 + 500)]
    IN  [s EXCEPT
            !.players[52] = MidPlayer(52, "B", Vec2(100 * Scale - 250, 60 * Scale),
                                      Vec2(0, 0), 0, 117, rt2),
            !.runtime[52] = rt2,
            !.power_ups[1].state.kind = kind]

InitShared == Mid({Shared(kind) : kind \in PowerUpKind}, SharedSteps)

SpecShared == InitShared /\ [][Next]_vars

\* the live players of the pickup test of the last tick that overlap the k-th
\* power-up of that test
Takers(k) ==
    {id \in DOMAIN log.pickup.players :
        log.pickup.players[id].alive /\ k \in Touched(id)}

\* C31: a power-up that several live players overlap at the pickup test of a
\* tick gives each of them its effect, the expiry of its kind set to that
\* tick's time + 8 s, and is removed from the world once: the tick leaves the
\* power-ups that no live player overlapped, each once, in their order.
C31_SharedPickup ==
    IsTick =>
        /\ \A k \in 1..Len(log.pickup.power_ups) : \A id \in Takers(k) :
            /\ Expiry(log.pickup.after[id], log.pickup.power_ups[k].state.kind)
                    = Some(log.now + POWERUP_DURATION_SECS)
            /\ players[id].alive =>
                    Expiry(runtime[id], log.pickup.power_ups[k].state.kind)
                        = Some(log.now + POWERUP_DURATION_SECS)
            /\ ~InWorld(power_ups, log.pickup.power_ups[k].state.id)
        /\ power_ups = SelectSeq(log.pickup.power_ups,
                LAMBDA pu : \A k \in 1..Len(log.pickup.power_ups) :
                    log.pickup.power_ups[k] = pu => Takers(k) = {})

\* a tick in which two live players were on the same power-up
C31_Witness ==
    /\ IsTick
    /\ \E k \in 1..Len(log.pickup.power_ups) :
        /\ Cardinality(Takers(k)) >= 2
        /\ \A id \in Takers(k) : players[id].alive
    /\ \E k \in 1..Len(log.pickup.power_ups) : Cardinality(Takers(k)) = 1
    /\ power_ups # <<>>

----------------------------------------------------------------------------
\* Dead players.

FallenSteps == 2

\* Player 52 dead until `deadline`, drifting as it died, with thrust, turn and
\* fire held, on the Shield power-up 801 and inside asteroid 900, which is at
\* rest; player 51 far away, idle, its bullet 911 one tick short of 52.
Fallen(deadline) ==
    LET rt1 == MidRuntime(PlayerInputDefault)
        rt2 == [MidRuntime([thrust |-> TRUE, rotate |-> 1, fire |-> TRUE]) EXCEPT
                    !.respawn_at = Some(deadline)]
        here == Vec2(10 * Scale, 4 * Scale)
        s == MidState(
            (51 :> MidPlayer(51, "A", Vec2(100 * Scale, 60 * Scale), Vec2(0, 0), 0, 300, rt1))
                @@ (52 :> MidPlayer(52, "B", here, Vec2(120, -50), FRAC_PI_4, 117, rt2)),
            (51 :> rt1) @@ (52 :> rt2),
            <<[id |-> 900, pos |-> Vec2(13 * Scale, 4 * Scale), vel |-> Vec2(0, 0),
               size |-> 1]>>,
            1, None)
    IN  [s EXCEPT
            !.bullets = <<Shot(911, Vec2(7 * Scale - 10, 4 * Scale),
                               Vec2(BULLET_SPEED * Scale, 0), 40)>>,
            !.power_ups = <<PowerUp(801, here, "Shield", T0 + 10000)>>]

\* the respawn is due at the second tick from T0, or later
InitFallen == Mid({Fallen(T0 + 2 * TickMs), Fallen(T0 + 1000)}, FallenSteps)

SpecFallen == InitFallen /\ [][Next]_vars

\* the players that are dead when a tick begins and that the tick does not
\* respawn
StaysDead == {id \in DOMAIN players : ~players[id].alive /\ id \notin log'.respawned}

\* C32: a tick leaves a player that is dead and not respawned by it where it
\* is, with its velocity and heading, and dead with the same respawn deadline;
\* it creates no bullet for it whatever its buffered input is, gives it no
\* power-up (its expiries stay, the power-ups under it stay unless a live
\* player is on them) and applies no death to it.
C32_DeadUntouched ==
    [][log'.kind = "tick" =>
        \A id \in StaysDead :
            /\ players'[id].pos = players[id].pos
            /\ players'[id].vel = players[id].vel
            /\ players'[id].angle = players[id].angle
            /\ ~players'[id].alive
            /\ runtime'[id].respawn_at = runtime[id].respawn_at
            /\ runtime'[id].last_fire = runtime[id].last_fire
            /\ id \notin log'.fired
            /\ \A k \in 1..Len(log'.shots) : log'.shots[k].state.owner_id # id
            /\ \A k \in 1..Len(bullets') :
                bullets'[k].state.owner_id = id =>
                    \E j \in 1..Len(bullets) : bullets[j].state.id = bullets'[k].state.id
            /\ id \notin DOMAIN log'.picked
            /\ \A kind \in PowerUpKind :
                Expiry(runtime'[id], kind) = Expiry(runtime[id], kind)
            /\ \A k \in Touched(id)' :
                Takers(k)' = {} => InWorld(power_ups', log'.pickup.power_ups[k].state.id)
            /\ \A i \in 1..Len(log'.deaths) : log'.deaths[i].victim # id
            /\ players'[id].score <= players[id].score
                    \/ \E i \in 1..Len(log'.kills) : log'.kills[i].owner = id]_vars

\* after a tick: a player that was dead before the tick as well, fire held,
\* with a power-up under it and an asteroid and an enemy bullet on it
C32_Witness ==
    /\ IsTick
    /\ \E id \in DOMAIN players :
        /\ ~players[id].alive
        /\ \A i \in 1..Len(log.deaths) : log.deaths[i].victim # id
        /\ id \notin log.respawned
        /\ runtime[id].input.fire
        /\ OverlapsAsteroid(players[id].pos, asteroids)
        /\ \E k \in 1..Len(bullets) :
            /\ bullets[k].state.owner_id # id
            /\ Overlap(bullets[k].state.pos, players[id].pos, BULLET_RADIUS + PLAYER_RADIUS)
        /\ \E k \in Touched(id) : InWorld(power_ups, log.pickup.power_ups[k].state.id)

\* after a tick: a dead player, dead before the tick as well, on a power-up
DeadOnPowerUp ==
    /\ IsTick
    /\ \E id \in DOMAIN players :
        /\ ~players[id].alive
        /\ log.deaths = <<>>
        /\ id \notin log.respawned
        /\ \E k \in Touched(id) : InWorld(power_ups, log.pickup.power_ups[k].state.id)

----------------------------------------------------------------------------
\* Positions of players and asteroids.

EdgeSteps == 2

\* Player 52 alone, 2 steps left of the right edge and 30 below the top one,
\* flying out through the corner with fire held; the only asteroid, 900 of the
\* size `size`, beside it and drifting out the same way.
Edge(size) ==
    LET rt == MidRuntime(FireInput)
    IN  MidState(
            52 :> MidPlayer(52, "B", Vec2(WORLD_WIDTH - 2, 30), Vec2(20 * Scale, -10 * Scale),
                            0, 117, rt),
            52 :> rt,
            <<[id |-> 900, pos |-> Vec2(WORLD_WIDTH - 2, 2), vel |-> Vec2(Scale, -60),
               size |-> size]>>,
            1, None)

InitEdge == Mid({Edge(2), Edge(3)}, EdgeSteps)

SpecEdge == InitEdge /\ [][Next]_vars

PositionsInWorld ==
    /\ \A id \in DOMAIN players : InsideWorld(players[id].pos)
    /\ \A i \in 1..Len(asteroids) : InsideWorld(asteroids[i].pos)

\* C33: after every step (a tick with its respawns, splits and wave spawn, a
\* join, any other handler step) every player and every asteroid is at a
\* position with 0 <= x < WORLD_WIDTH and 0 <= y < WORLD_HEIGHT; a tick leaves
\* every asteroid that it keeps with its velocity and its size.
C33_InWorld ==
    [][/\ PositionsInWorld'
       /\ log'.kind = "tick" =>
            \A i \in 1..Len(asteroids), j \in 1..Len(asteroids') :
                asteroids'[j].id = asteroids[i].id =>
                    /\ asteroids'[j].vel = asteroids[i].vel
                    /\ asteroids'[j].size = asteroids[i].size]_vars

\* a tick of Edge that took the player and the asteroid through the corner of
\* the world and split the asteroid there, its children on both sides of the
\* edge
C33_Witness ==
    /\ IsTick
    /\ 52 \in DOMAIN players
    /\ players[52].pos.x < 2 * Scale
    /\ players[52].pos.y > WORLD_HEIGHT - 2 * Scale
    /\ \E i \in 1..Len(log.kills) : log.kills[i].asteroid = 900
    /\ \E i, j \in 1..Len(asteroids) :
        /\ asteroids[i].pos.x < 2 * Scale
        /\ asteroids[j].pos.x > WORLD_WIDTH - 2 * Scale

\* a tick that kept an asteroid, moved
AsteroidDrifts ==
    /\ IsTick
    /\ \E i \in 1..Len(asteroids) : asteroids[i].id = 900 /\ asteroids[i].pos.y > 40 * Scale

----------------------------------------------------------------------------
\* The three maps of ServerState.

\* C34: whenever the state lock is free the ids with a player record are the
\* ids with a runtime record, and each of them is in the client registry.
C34_RecordsAgree ==
    lock = None =>
        /\ DOMAIN players = DOMAIN runtime
        /\ DOMAIN players \subseteq clients

\* the lock is free again after the disconnect of a client that had a player,
\* another player and its client staying
C34_Witness ==
    /\ lock = None
    /\ log.kind = "release"
    /\ pc # <<>>
    /\ \E id \in DOMAIN pc : pc[id].op = "eof" /\ id \notin clients
    /\ DOMAIN players # {}
    /\ readers # {}

\* a client without a player, beside one with a player
ClientWithoutPlayer == DOMAIN players # {} /\ clients \ DOMAIN players # {}

----------------------------------------------------------------------------
\* The first message of a client.

\* the registered clients whose handler has not sent its Welcome yet
Unwelcomed == {c \in DOMAIN pc \cap clients : pc[c].op = "connect"}

\* C35: no message is queued to a client before its Welcome: a step that sends
\* to a client whose Welcome is still to come sends it the Welcome first.
C35_WelcomeFirst ==
    [][log'.kind \in Sends =>
        \A k \in 1..Len(log'.sent) : \A c \in log'.sent[k].to \cap Unwelcomed :
            \E j \in 1..k : log'.sent[j].msg.type = "Welcome" /\ c \in log'.sent[j].to]_vars

\* What holds instead: the first message that the handler of a client queues is
\* the Welcome of that client, and it queues it before it reads a line.
OwnWelcomeFirst ==
    [][/\ \A c \in Unwelcomed :
            log'.kind \in Sends /\ log'.who = c =>
                /\ log'.sent[1].msg.type = "Welcome"
                /\ log'.sent[1].to \subseteq {c}
       /\ \A c \in Unwelcomed : log'.kind = "next_line" => log'.who # c]_vars

\* the State of a tick is queued to a client whose Welcome is still to come
StateBeforeWelcome ==
    /\ log.kind = "send"
    /\ log.who = Ticker
    /\ \E c \in Unwelcomed : c \in log.sent[1].to /\ log.sent[1].msg.type = "State"

----------------------------------------------------------------------------
\* Progress of the tick loop and of the handlers.  The runtime is the
\* multi-threaded one of #[tokio::main], which polls every task that is ready,
\* and the state lock is tokio's Mutex, which hands the lock to its waiters in
\* the order of their calls: a process in the middle of an operation takes its
\* next step when the step stays possible, and the interval of the ticker
\* elapses.

\* the tick loop, the connections being accepted and the handlers by their ids
Procs == {Ticker} \cup Accepting \cup DOMAIN Lobby.players
            \cup (Lobby.next_id .. Lobby.next_id + LockSteps)

\* the steps of an operation that has begun, the run of tick() apart
Advance ==
    \/ Acquire \/ Release \/ CopyClients \/ SendOut
    \/ ConnectLocked \/ JoinLocked \/ InputLocked \/ ChatLocked \/ DisconnectLocked

\* the next step of the operation the process p is in the middle of
Step(p) ==
    /\ p \in DOMAIN pc
    /\ Advance
    /\ p \in DOMAIN pc' => pc'[p] # pc[p]

\* the run of tick() by the tick loop that holds the lock, told by what it does
\* to the clock
TickRun == At(Ticker, "locked") /\ TickTaken

SpecLockFair ==
    /\ SpecLock
    /\ \A p \in Procs : WF_vars(Step(p))
    /\ WF_clock(TickRun)
    /\ WF_vars(Fire)

\* the process p waits for the state lock
AtLock(p) == pc[p].at \in {"lock", "lock_all"}

\* no process waits for the lock it holds
NoSelfWait == \A p \in DOMAIN pc : AtLock(p) => lock # Some(p)

\* the holder of the lock is at a step of its own: at its work on the state or
\* at the end of the scope of its guard, never at an await
HolderRuns ==
    \A p \in lock :
        /\ p \in DOMAIN pc
        /\ pc[p].at \in {"locked", "locked_all", "unlock", "unlock_all"}

\* C36: the system is free of deadlock: no process waits for the state lock
\* while it holds it, the holder of the lock waits for nothing, every operation
\* a process has begun (a tick, a connection, a Join, Input or Chat line, a
\* disconnect) is completed, the tick the ticker has fired for is run, and
\* while steps are left a next tick is run.
C36_DeadlockFree ==
    /\ [](DOMAIN pc \subseteq Procs /\ NoSelfWait /\ HolderRuns)
    /\ \A p \in Procs : (p \in DOMAIN pc) ~> (p \notin DOMAIN pc)
    /\ At(Ticker, "lock") ~> IsTick
    /\ \A n \in 1..LockSteps : (budget = n) ~> (IsTick /\ budget < n)

\* a handler waits for the lock at its broadcast_all while the tick loop holds
\* the lock and has its tick to run
C36_Witness ==
    /\ lock = Some(Ticker)
    /\ At(Ticker, "locked")
    /\ \E p \in DOMAIN pc \ {Ticker} : pc[p].at = "lock_all"

----------------------------------------------------------------------------
\* What one bullet destroys.

PierceSteps == 2

\* Bullet 911 of player 51, who is far away, one tick short of the place P.
\* With "rocks" the asteroids 900 and 901 of size 1 are both within reach of
\* P and player 52 is on P's other side, clear of both; with "crowd" there is
\* no asteroid near and the players 52 and 53 are on either side of P.
Pierce(kind) ==
    LET rt == MidRuntime(PlayerInputDefault)
        P == Vec2(30 * Scale, 20 * Scale)
        p51 == 51 :> MidPlayer(51, "A", Vec2(100 * Scale, 60 * Scale), Vec2(0, 0), 0, 300, rt)
        p52 == 52 :> MidPlayer(52, "B", Vec2(P.x + 150, P.y), Vec2(0, 0), 0, 117, rt)
        p53 == 53 :> MidPlayer(53, "B", Vec2(P.x - 150, P.y), Vec2(0, 0), 0, 0, rt)
        ps == IF kind = "rocks" THEN p51 @@ p52 ELSE p51 @@ p52 @@ p53
        asts == IF kind = "rocks"
                THEN <<[id |-> 900, pos |-> Vec2(P.x - 200, P.y), vel |-> Vec2(0, 0),
                        size |-> 1],
                       [id |-> 901, pos |-> Vec2(P.x - 200, P.y - 100), vel |-> Vec2(0, 0),
                        size |-> 1]>>
                ELSE <<[id |-> 900, pos |-> Vec2(70 * Scale, 20 * Scale), vel |-> Vec2(0, 0),
                        size |-> 1]>>
        s == MidState(ps, [id \in DOMAIN ps |-> rt], asts, 1, None)
    IN  [s EXCEPT !.bullets = <<
            Shot(911, Vec2(P.x - 150, P.y), Vec2(BULLET_SPEED * Scale, 0), 40)>>]

InitPierce == Mid({Pierce("rocks"), Pierce("crowd")}, PierceSteps)

SpecPierce == InitPierce /\ [][Next]_vars

\* the bullet b of the bullet-player test of the last tick was on a player it
\* can kill
OnTarget(b) ==
    \E id \in DOMAIN log.pvp.players :
        /\ log.pvp.players[id].alive
        /\ id # b.state.owner_id
        /\ ~(id \in DOMAIN log.pvp.runtime /\ is_invincible(log.pvp.runtime[id], log.tnow))
        /\ Overlap(b.state.pos, log.pvp.players[id].pos, BULLET_RADIUS + PLAYER_RADIUS)

\* the bullets of the bullet-player test of the last tick that hit a player
PvpHitIds ==
    {log.pvp.bullets[k].state.id : k \in {j \in 1..Len(log.pvp.bullets) :
                                            OnTarget(log.pvp.bullets[j])}}

\* the deaths by a bullet in the last tick
BulletDeaths == SelectSeq(log.deaths, LAMBDA d : d.cause = "bullet")

\* C37: a bullet destroys at most one entity: in a tick no bullet is matched
\* with two asteroids, a bullet matched with an asteroid is not among the
\* bullets of the bullet-player test, the tick has one death by a bullet for
\* each bullet that hit a player, and no bullet that hit an asteroid or a
\* player is in the world after the tick.
C37_OneTarget ==
    IsTick =>
        /\ \A i, j \in 1..Len(log.kills) :
                log.kills[i].bullet = log.kills[j].bullet => i = j
        /\ \A i \in 1..Len(log.kills), k \in 1..Len(log.pvp.bullets) :
                log.kills[i].bullet # log.pvp.bullets[k].state.id
        /\ Len(BulletDeaths) = Cardinality(PvpHitIds)
        /\ \A i \in 1..Len(log.kills) : log.kills[i].bullet \notin BulletIds
        /\ PvpHitIds \cap BulletIds = {}

\* a tick in which a bullet destroyed one of the asteroids next to it and left
\* the other asteroid and the player next to it alone
C37_Witness ==
    /\ IsTick
    /\ \E i \in 1..Len(log.kills) :
        /\ log.kills[i].bullet = 911 /\ log.kills[i].asteroid = 900
    /\ 901 \in AsteroidIds
    /\ players[52].alive
    /\ log.deaths = <<>>

\* a tick in which a bullet between two players killed one of them
OneOfTwoShot ==
    /\ IsTick
    /\ Len(BulletDeaths) = 1
    /\ 53 \in DOMAIN players
    /\ players[52].alive # players[53].alive
    /\ 911 \notin BulletIds

----------------------------------------------------------------------------
\* What a dead player earns.

LastShotSteps == 2

\* Player 51 died half a second ago and has a second to wait; its last bullet,
\* 911, is one tick short of the place P.  With "rock" the asteroid 900 of the
\* size `size` is within reach of P and player 52 is far away, with "rival"
\* player 52 is within reach of P and the asteroid is far away.
LastShot(kind, size) ==
    LET rt1 == [MidRuntime(PlayerInputDefault) EXCEPT !.respawn_at = Some(T0 + 1000)]
        rt2 == MidRuntime(PlayerInputDefault)
        P == Vec2(30 * Scale, 20 * Scale)
        far == Vec2(70 * Scale, 50 * Scale)
        s == MidState(
            (51 :> MidPlayer(51, "A", Vec2(100 * Scale, 60 * Scale), Vec2(0, 0), 0, 255, rt1))
                @@ (52 :> MidPlayer(52, "B", IF kind = "rival" THEN Vec2(P.x + 150, P.y)
                                             ELSE far, Vec2(0, 0), 0, 117, rt2)),
            (51 :> rt1) @@ (52 :> rt2),
            <<[id |-> 900, pos |-> IF kind = "rock" THEN Vec2(P.x + 200, P.y) ELSE far,
               vel |-> Vec2(0, 0), size |-> size]>>,
            1, None)
    IN  [s EXCEPT !.bullets = <<
            Shot(911, Vec2(P.x - 150, P.y), Vec2(BULLET_SPEED * Scale, 0), 40)>>]

InitLastShot ==
    Mid({LastShot(kind, size) : kind \in {"rock", "rival"}, size \in {1, 2}}, LastShotSteps)

SpecLastShot == InitLastShot /\ [][Next]_vars

\* the score of id is not above what it was, and its combo and kill streak are 0
EarnsNothing(id) ==
    /\ ~players[id].alive => players'[id].score <= players[id].score
    /\ players'[id].combo = 0 /\ players'[id].kill_streak = 0
    /\ id \in DOMAIN runtime' => runtime'[id].combo = 0 /\ runtime'[id].kill_streak = 0

\* C38: a dead player earns nothing: a player that is dead after a step has
\* combo 0 and kill streak 0 after it, in its record and in its runtime
\* record, and the score of a player that was dead before the step and is dead
\* after it has not grown.
C38_DeadEarnNothing ==
    [][\A id \in DOMAIN players \cap DOMAIN players' :
            ~players'[id].alive => EarnsNothing(id)]_vars

\* a tick credited the kill of an asteroid to a player that was dead when the
\* tick began and is dead after it
PaidWhileDead ==
    /\ IsTick
    /\ \E i \in 1..Len(log.kills) :
        /\ log.kills[i].credited
        /\ log.kills[i].score_after > log.kills[i].score_before
        /\ log.kills[i].owner \in DOMAIN players
        /\ ~log.at_test[log.kills[i].owner].alive
        /\ ~players[log.kills[i].owner].alive
        /\ players[log.kills[i].owner].combo = 1

\* a tick counted a kill of a player for the kill streak of a player that was
\* dead when the tick began and is dead after it
StreakWhileDead ==
    /\ IsTick
    /\ \E k \in 1..Len(log.deaths) :
        /\ log.deaths[k].cause = "bullet"
        /\ log.deaths[k].shooter \in DOMAIN players
        /\ ~log.at_test[log.deaths[k].shooter].alive
        /\ ~players[log.deaths[k].shooter].alive
        /\ players[log.deaths[k].shooter].kill_streak = 1

----------------------------------------------------------------------------
\* Join, the first and the later ones of a connection.

\* the name of the Join line the last step handled
JoinedAs == log.sent[1].msg.text[1]

\* the step is the first Join of its connection: it adds the player record
\* and the runtime record of the connection and changes no other
FirstJoin(id) ==
    /\ DOMAIN players' = DOMAIN players \cup {id}
    /\ DOMAIN runtime' = DOMAIN runtime \cup {id}
    /\ \A k \in DOMAIN players : players'[k] = players[k]
    /\ \A k \in DOMAIN runtime \ {id} : runtime'[k] = runtime[k]
    /\ players'[id].id = id
    /\ players'[id].name = JoinedAs'
    /\ players'[id].alive
    /\ players'[id].score = 0
    /\ runtime'[id].invincible_until = Some(log'.now + SPAWN_INVINCIBILITY_SECS)
    /\ runtime'[id].respawn_at = None

\* C39: Join is idempotent on the world state: the Join of a connection that
\* has a player record leaves every player record and every runtime record
\* as it is; the Join of a connection without one creates its player record
\* with the name of the line, alive, with score 0, and its runtime record
\* with an invincibility that ends 2.5 s later; and no Join changes the
\* bullets, the asteroids, the power-ups, the wave or the id counter.
C39_JoinOnce ==
    [][log'.kind = "join" =>
        /\ IF log'.who \in DOMAIN players
           THEN players' = players /\ runtime' = runtime
           ELSE FirstJoin(log'.who)
        /\ UNCHANGED <<bullets, asteroids, power_ups, next_id, current_wave,
                       wave_countdown, clients>>]_vars

\* a Join under another name by a connection that has joined: the player
\* keeps the name of its first Join
C39_Witness ==
    /\ log.kind = "join"
    /\ log.who \in DOMAIN players
    /\ players[log.who].name # JoinedAs

\* a Join by a connection whose player is dead and has a score
JoinOfTheDead ==
    /\ log.kind = "join"
    /\ log.who \in DOMAIN players
    /\ ~players[log.who].alive
    /\ players[log.who].score > 0
    /\ runtime[log.who].respawn_at # None
====
